---- MODULE Spec2Model ----
(***************************************************************************)
(* A model of benchy (alass1205/Node-D): the launch sequencer              *)
(* (NetworkService.LaunchNetwork), the container runtime gateway           *)
(* (DockerClient: API and CLI backends, and DockerClientReal), the chain   *)
(* RPC client pool (EthereumClient), and the monitoring snapshot and loop  *)
(* (MonitoringService.DisplayNetworkInfo), and the temporary-failure       *)
(* command (CLIHandler.HandleTemporaryFailure).                            *)
(*                                                                         *)
(* The specifications share the variables:                                 *)
(*   SpecLaunch     the launch sequencer driving the container runtime     *)
(*   SpecGateway    direct calls of the gateway's CreateNetwork            *)
(*   SpecLifecycle  the same lifecycle calls made on every backend         *)
(*   SpecStats      GetContainerStats and calculateCPUUsage                *)
(*   SpecPool       concurrent callers of the RPC client pool              *)
(*   SpecMonitor    a one-shot snapshot of MonitoringService               *)
(*   SpecDisplay    DisplayNetworkInfo, one-shot and continuous            *)
(*   SpecIsolation  two snapshots on the same answers, one container down  *)
(*   SpecStrangers  a one-shot snapshot with containers outside the fleet  *)
(*   SpecFailure    the temporary-failure command                          *)
(* Each leaves the variables of the other components unchanged.            *)
(***************************************************************************)
EXTENDS Integers, Sequences, FiniteSets, TLC

VARIABLES
    \* ---- container runtime (the docker daemon the program talks to)
    backend,        \* which DockerClient is built in: "api" or "cli"
    networks,       \* names of the docker networks that exist
    containers,     \* container name -> "absent" | "created" | "running" | "exited"
    \* ---- LaunchNetwork (one invocation at a time)
    lpc,            \* position in LaunchNetwork
    cur,            \* 1-based position of the node being brought up
    phaseA,         \* node -> the one-shot init: "none" | "running" | "ok" | "failed"
    phaseB,         \* node -> the long-running container: "none" | "running" | "ok" | "failed"
    result,         \* node -> what its launch function returned: "pending" | "ok" | "failed"
    cause,          \* node -> which step failed: "none" | "init" | "create"
    successCount,   \* the local successCount
    events,         \* progress.Update calls so far: <<[index, ok, cause]>>
    retErr,         \* what LaunchNetwork returned: "pending" | "nil" | an error
    netErr,         \* what CreateNetwork returned to LaunchNetwork
    preExisting,    \* the containers as they were when LaunchNetwork was entered
    \* ---- direct gateway calls
    gwCalls,        \* CreateNetwork calls made so far: <<[name, err, faulty, before, after]>>
    \* ---- the same lifecycle calls made on each backend of the gateway
    rt,             \* backend -> container id -> "absent" | "created" | "running" | "exited"
    rtNets,         \* backend -> names of the docker networks that exist
    lcCall,         \* the last lifecycle call and what each backend returned
    lcCalls,        \* number of lifecycle calls made
    lcHist,         \* per container id: created and not removed since, and
                    \* the last of StartContainer/StopContainer/RestartContainer
    strangers,      \* the running containers named benchy-<name> that are not of
                    \* the fleet (docker ps --filter name=benchy- lists them too)
    \* ---- CLIHandler.HandleTemporaryFailure
    tf,             \* the temporary-failure command: the node, what was printed,
                    \* what it returned, and what it did to the node's container
    \* ---- GetContainerStats of the API backend
    cpuHost,        \* the host: [online |-> CPUs, percpu |-> whether per-CPU usage is reported]
    stats,          \* the last types.StatsJSON the daemon returned, NoStats before that
    cpuUsage,       \* ContainerStats.CPUUsage of the last call, as the fraction num/den
    \* ---- EthereumClient (the chain RPC client pool) and its callers
    clients,        \* ec.clients: endpoint -> transport id, 0 when there is no entry
    rpcClients,     \* ec.rpcClients: endpoint -> transport id, 0 when there is no entry
    mutex,          \* ec.mutex: [writer |-> thread or 0, readers |-> set of threads]
    transports,     \* every transport dialed so far: <<[ep, open]>>, the id is the index
    tpc,            \* thread -> position in the call it is in, "idle" between calls
    call,           \* thread -> the call it is in, or its last call once returned
    sinceConnect,   \* endpoint -> probes run on it by ConnectToNode since its entry was stored
    poolCalls,      \* number of pool calls started
    \* ---- MonitoringService.displayOneShotInfo (one invocation)
    mpc,            \* position in displayOneShotInfo
    discovered,     \* the local containers: what getRealBenchyContainers returned
    mi,             \* 1-based position of the container being processed
    info,           \* the NodeInfo that getRealNodeInfo is filling in
    steps,          \* the external calls made for the current container, and their results
    row,            \* the row appended for the current container, NoRow before that
    rowNames,       \* the node names of the rows appended so far
    warned,         \* whether the "No benchy containers found" warning was emitted
    tableShown,     \* whether feedback.DisplayTable rendered the table
    mErr,           \* what displayOneShotInfo returned: "pending" | "nil" | an error
    \* ---- MonitoringService.DisplayNetworkInfo and continuousMonitoring
    updateInterval, \* the argument of DisplayNetworkInfo
    cpc,            \* position in continuousMonitoring, "idle" when it is not running
    cancelled,      \* whether ctx is done
    tickPending,    \* whether ticker.C holds a tick
    ticksFired,     \* how often the ticker has fired
    ticksTaken,     \* how many ticks the select has received from ticker.C
    snapshots,      \* how many calls of displayOneShotInfo were made
    lateSnapshot,   \* whether a call of displayOneShotInfo was made when ctx was done
    cRet,           \* what continuousMonitoring returned, "pending" before that
    reported,       \* how many snapshot errors continuousMonitoring has reported
    \* ---- two snapshots taken on the same inputs, to compare their rows
    run,            \* 0: the inputs of a snapshot are free; 1, 2: they are read from the tape
    tape,           \* node -> what the runtime and the node answer when asked about it
    down,           \* the node whose container is not up in run 2
    baseline        \* node -> the row it got in run 1, NoRow before that

runtimeVars == <<backend, networks, containers>>
launchVars  == <<lpc, cur, phaseA, phaseB, result, cause, successCount, events,
                 retErr, netErr, preExisting>>
lifecycleVars == <<rt, rtNets, lcCall, lcCalls, lcHist>>
cpuVars == <<cpuHost, stats, cpuUsage>>
gatewayVars == <<gwCalls, lifecycleVars, cpuVars>>
poolVars    == <<clients, rpcClients, mutex, transports, tpc, call, sinceConnect,
                 poolCalls>>
loopVars    == <<updateInterval, cpc, cancelled, tickPending, ticksFired, ticksTaken,
                 snapshots, lateSnapshot, cRet, reported>>
isoVars     == <<run, tape, down, baseline>>
monitorVars == <<mpc, discovered, mi, info, steps, row, rowNames, warned,
                 tableShown, mErr, loopVars, isoVars>>
failureVars == <<tf>>
nonLaunchVars == <<gatewayVars, failureVars, strangers, poolVars, monitorVars>>
vars == <<runtimeVars, strangers, launchVars, gatewayVars, failureVars, poolVars,
         monitorVars>>

----------------------------------------------------------------------------
(* Names.  A name is a sequence of tokens, so that "is part of" (the match *)
(* docker applies to --filter name=) can be computed.                      *)

Nil == "nil"

NetworkName == <<"benchy-network">>

NetNames == { <<"benchy-network">>, <<"benchy-network", "-old">> }

Backends == {"api", "cli"}

\* a occurs in b as a contiguous part
Contains(b, a) ==
    \E i \in 1..(Len(b) - Len(a) + 1) : SubSeq(b, i, i + Len(a) - 1) = a

----------------------------------------------------------------------------
(* The fleet, in the order LaunchNetwork brings it up.                     *)

Order == <<"alice", "bob", "cassandra", "driss", "elena">>

NumNodes == 5

Nodes == { Order[i] : i \in 1..NumNodes }

\* the position of a node in the declared order
IndexOf(n) == CHOOSE i \in 1..NumNodes : Order[i] = n

\* alice, bob and driss run `geth init` (phase a) before the container
NeedsGenesis(n) == n \in {"alice", "bob", "driss"}

----------------------------------------------------------------------------
(* The container runtime, as the program's calls see it.  Every call may   *)
(* fail for a reason outside the program (daemon unreachable, image not    *)
(* pullable, port taken): the fault is an input of the call.               *)

\* docker network ls --filter name=<name> --quiet: the filter matches every
\* network whose name contains <name>
NetworkLsFilter(nets, name) == { m \in nets : Contains(m, name) }

\* DockerClient.CreateNetwork, API backend
CreateNetworkAPI(nets, name, listFails, createFails) ==
    IF listFails
    THEN [err |-> "failed to list networks", nets |-> nets]
    ELSE IF name \in nets
    THEN [err |-> Nil, nets |-> nets]
    ELSE IF createFails
    THEN [err |-> "failed to create network", nets |-> nets]
    ELSE [err |-> Nil, nets |-> nets \cup {name}]

\* DockerClient.CreateNetwork, CLI backend; `docker network create` refuses
\* a name that exists
CreateNetworkCLI(nets, name, lsFails, createFails) ==
    IF ~lsFails /\ NetworkLsFilter(nets, name) # {}
    THEN [err |-> Nil, nets |-> nets]
    ELSE IF createFails \/ name \in nets
    THEN [err |-> "failed to create network", nets |-> nets]
    ELSE [err |-> Nil, nets |-> nets \cup {name}]

CreateNetwork(b, nets, name, queryFails, createFails) ==
    IF b = "api"
    THEN CreateNetworkAPI(nets, name, queryFails, createFails)
    ELSE CreateNetworkCLI(nets, name, queryFails, createFails)

\* exit status of `docker run --rm ... --network benchy-network ... init`
RunGenesisInit(nets, fault) ==
    IF fault \/ NetworkName \notin nets THEN "failed" ELSE "ok"

RunFaults == {"none", "refused", "startfail"}

RunDetachedReplacing(cs, nets, n, fault) ==
    IF fault = "refused"
    THEN [err |-> "run refused", cs |-> cs]
    ELSE IF fault = "startfail" \/ NetworkName \notin nets
    THEN [err |-> "start failed", cs |-> [cs EXCEPT ![n] = "created"]]
    ELSE [err |-> Nil, cs |-> [cs EXCEPT ![n] = "running"]]

\* `docker run -d --name benchy-<n> ... --network benchy-network ...`:
\* refused when the name is taken; otherwise the container is created and
\* started, and a failure may leave it created
RunDetached(cs, nets, n, fault) ==
    IF cs[n] # "absent"
    THEN [err |-> "name in use", cs |-> cs]
    ELSE IF fault = "refused"
    THEN [err |-> "run refused", cs |-> cs]
    ELSE IF fault = "startfail" \/ NetworkName \notin nets
    THEN [err |-> "start failed", cs |-> [cs EXCEPT ![n] = "created"]]
    ELSE [err |-> Nil, cs |-> [cs EXCEPT ![n] = "running"]]

----------------------------------------------------------------------------
(* NetworkService.LaunchNetwork                                            *)

\* feedback.StartProgress: the console progress reporter starts
StartProgressErr == Nil

AfterCreateNetworkAbort(err) == IF err # Nil THEN "done" ELSE "progress"

\* LaunchNetwork goes on to StartProgress whatever CreateNetwork returned
AfterCreateNetwork(err) == "progress"

InitReturnIgnoringErr(outcome) == "pending"

\* launch<Node>WithGenesis returns when the init command failed
InitReturn(outcome) == IF outcome = "failed" THEN "failed" ELSE "pending"

MayBeginAny(n) == lpc = "nodes"

\* the sequencer works on the node at position cur
MayBegin(n) == lpc = "nodes" /\ cur \in 1..NumNodes /\ Order[cur] = n

ProgressMessageAlwaysOk(i, res, why) == [index |-> i, ok |-> TRUE, cause |-> "none"]

\* progress.Update(i, ...) of the i-th node
ProgressMessage(i, res, why) ==
    [index |-> i, ok |-> (res = "ok"), cause |-> IF res = "ok" THEN "none" ELSE why]

NextPositionAbort(i, res) == IF res = "failed" THEN NumNodes + 1 ELSE i + 1

\* after node i, the next statement is node i+1 whatever the outcome
NextPosition(i, res) == i + 1

LaunchResultStrict(count) ==
    IF count < NumNodes THEN "failed to launch any nodes" ELSE Nil

\* the value LaunchNetwork returns
LaunchResult(count) ==
    IF count = 0 THEN "failed to launch any nodes" ELSE Nil

LaunchEntry ==
    /\ lpc \in {"idle", "done"}
    /\ lpc' = "net"
    /\ cur' = 1
    /\ phaseA' = [n \in Nodes |-> "none"]
    /\ phaseB' = [n \in Nodes |-> "none"]
    /\ result' = [n \in Nodes |-> "pending"]
    /\ cause' = [n \in Nodes |-> "none"]
    /\ successCount' = 0
    /\ events' = <<>>
    /\ retErr' = "pending"
    /\ netErr' = "pending"
    /\ preExisting' = containers
    /\ UNCHANGED <<runtimeVars, nonLaunchVars>>

LaunchCreateNetwork ==
    /\ lpc = "net"
    /\ \E queryFails \in BOOLEAN, createFails \in BOOLEAN :
         LET r == CreateNetwork(backend, networks, NetworkName, queryFails, createFails)
         IN  /\ networks' = r.nets
             /\ netErr' = r.err
             /\ lpc' = AfterCreateNetwork(r.err)
             /\ retErr' = IF lpc' = "done" THEN r.err ELSE retErr
    /\ UNCHANGED <<backend, containers, cur, phaseA, phaseB, result, cause,
                   successCount, events, preExisting, nonLaunchVars>>

LaunchStartProgress ==
    /\ lpc = "progress"
    /\ IF StartProgressErr # Nil
       THEN lpc' = "done" /\ retErr' = StartProgressErr
       ELSE lpc' = "nodes" /\ retErr' = retErr
    /\ UNCHANGED <<runtimeVars, cur, phaseA, phaseB, result, cause,
                   successCount,
                   events, netErr, preExisting, nonLaunchVars>>

InitGenesisStart(n) ==
    /\ MayBegin(n)
    /\ NeedsGenesis(n)
    /\ phaseA[n] = "none"
    /\ phaseA' = [phaseA EXCEPT ![n] = "running"]
    /\ UNCHANGED <<runtimeVars, lpc, cur, phaseB, result, cause, successCount,
                   events, retErr, netErr, preExisting, nonLaunchVars>>

InitGenesisExit(n) ==
    /\ phaseA[n] = "running"
    /\ \E fault \in BOOLEAN :
         LET outcome == RunGenesisInit(networks, fault)
         IN  /\ phaseA' = [phaseA EXCEPT ![n] = outcome]
             /\ result' = [result EXCEPT ![n] = InitReturn(outcome)]
             /\ cause' = [cause EXCEPT ![n] =
                            IF result'[n] = "failed" THEN "init" ELSE "none"]
    /\ UNCHANGED <<runtimeVars, lpc, cur, phaseB, successCount, events, retErr,
                   netErr, preExisting, nonLaunchVars>>

RunContainerStart(n) ==
    /\ result[n] = "pending"
    /\ phaseB[n] = "none"
    /\ IF NeedsGenesis(n) THEN phaseA[n] \in {"ok", "failed"} ELSE MayBegin(n)
    /\ phaseB' = [phaseB EXCEPT ![n] = "running"]
    /\ UNCHANGED <<runtimeVars, lpc, cur, phaseA, result, cause, successCount,
                   events, retErr, netErr, preExisting, nonLaunchVars>>

RunContainerExit(n) ==
    /\ phaseB[n] = "running"
    /\ \E fault \in RunFaults :
         LET r == RunDetached(containers, networks, n, fault)
         IN  /\ containers' = r.cs
             /\ phaseB' = [phaseB EXCEPT ![n] = IF r.err = Nil THEN "ok" ELSE "failed"]
             /\ result' = [result EXCEPT ![n] = IF r.err = Nil THEN "ok" ELSE "failed"]
             /\ cause' = [cause EXCEPT ![n] = IF r.err = Nil THEN "none" ELSE "create"]
    /\ UNCHANGED <<backend, networks, lpc, cur, phaseA, successCount, events,
                   retErr, netErr, preExisting, nonLaunchVars>>

ProgressUpdate(n) ==
    /\ lpc = "nodes"
    /\ cur \in 1..NumNodes
    /\ Order[cur] = n
    /\ result[n] # "pending"
    /\ successCount' = IF result[n] = "ok" THEN successCount + 1 ELSE successCount
    /\ events' = Append(events, ProgressMessage(cur, result[n], cause[n]))
    /\ cur' = NextPosition(cur, result[n])
    /\ lpc' = IF cur' > NumNodes THEN "finish" ELSE "nodes"
    /\ UNCHANGED <<runtimeVars, phaseA, phaseB, result, cause, retErr, netErr,
                   preExisting, nonLaunchVars>>

LaunchFinish ==
    /\ lpc = "finish"
    /\ retErr' = LaunchResult(successCount)
    /\ lpc' = "done"
    /\ UNCHANGED <<runtimeVars, cur, phaseA, phaseB, result, cause,
                   successCount,
                   events, netErr, preExisting, nonLaunchVars>>

\* scripts/cleanup.sh, run between launches: stops and removes every benchy
\* container and removes benchy-network
Cleanup ==
    /\ lpc \in {"idle", "done"}
    /\ containers' = [n \in Nodes |-> "absent"]
    /\ networks' = networks \ {NetworkName}
    /\ lpc' = "idle"
    /\ UNCHANGED <<backend, cur, phaseA, phaseB, result, cause, successCount,
                   events, retErr, netErr, preExisting, nonLaunchVars>>

----------------------------------------------------------------------------
(* Direct calls of the gateway's CreateNetwork, on either backend.         *)

MaxGwCalls == 3

GwCreateNetwork(name) ==
    /\ Len(gwCalls) < MaxGwCalls
    /\ \E queryFails \in BOOLEAN, createFails \in BOOLEAN :
         LET r == CreateNetwork(backend, networks, name, queryFails, createFails)
         IN  /\ networks' = r.nets
             /\ gwCalls' = Append(gwCalls,
                    [name |-> name, err |-> r.err,
                     faulty |-> (queryFails \/ createFails),
                     before |-> networks, after |-> r.nets])
    /\ UNCHANGED <<backend, containers, launchVars, lifecycleVars, cpuVars,
                   failureVars, strangers,
                   poolVars, monitorVars>>

----------------------------------------------------------------------------
(* The lifecycle operations of the gateway.  The same call is made on the  *)
(* API backend, the CLI backend and the in-memory DockerClientReal, each   *)
(* on a runtime of its own that starts in the same state.  An error is the *)
(* chain of its messages, outermost first: <<>> is nil, <<m, c>> is        *)
(* fmt.Errorf("m: %w", c) and <<c>> is the cause c returned as it is.      *)

ContainerIDs == {"c1", "c2"}

AllBackends == Backends \cup {"memory"}

ContainerStates == {"absent", "created", "running", "exited"}

NoErr == <<>>

\* what the docker client library, resp. exec.Cmd, reports
Cause(b) == IF b = "api" THEN "Error response from daemon" ELSE "exit status 1"

Wrapped(msg, b) == <<msg, Cause(b)>>

Bare(b) == <<Cause(b)>>

Outcome(cs, err, val, failed) ==
    [cs |-> cs, err |-> err, val |-> val, failed |-> failed]

\* ---- the docker daemon: ok is whether the request succeeded
DockerCreate(cs, id, fails) ==
    IF fails \/ cs[id] # "absent"
    THEN [ok |-> FALSE, cs |-> cs]
    ELSE [ok |-> TRUE, cs |-> [cs EXCEPT ![id] = "created"]]

\* docker run -d: creates the container and starts it
DockerRun(cs, id, fails) ==
    IF fails \/ cs[id] # "absent"
    THEN [ok |-> FALSE, cs |-> cs]
    ELSE [ok |-> TRUE, cs |-> [cs EXCEPT ![id] = "running"]]

DockerStart(cs, id, fails) ==
    IF fails \/ cs[id] = "absent"
    THEN [ok |-> FALSE, cs |-> cs]
    ELSE [ok |-> TRUE, cs |-> [cs EXCEPT ![id] = "running"]]

DockerStop(cs, id, fails) ==
    IF fails \/ cs[id] = "absent"
    THEN [ok |-> FALSE, cs |-> cs]
    ELSE [ok |-> TRUE,
          cs |-> [cs EXCEPT ![id] = IF @ = "running" THEN "exited" ELSE @]]

DockerRestart(cs, id, fails) ==
    IF fails \/ cs[id] = "absent"
    THEN [ok |-> FALSE, cs |-> cs]
    ELSE [ok |-> TRUE, cs |-> [cs EXCEPT ![id] = "running"]]

\* forced removal
DockerRemove(cs, id, fails) ==
    IF fails \/ cs[id] = "absent"
    THEN [ok |-> FALSE, cs |-> cs]
    ELSE [ok |-> TRUE, cs |-> [cs EXCEPT ![id] = "absent"]]

\* inspect: State.Running of a container that exists
DockerInspect(cs, id, fails) ==
    IF fails \/ cs[id] = "absent"
    THEN [ok |-> FALSE, running |-> FALSE]
    ELSE [ok |-> TRUE, running |-> (cs[id] = "running")]

DockerNetworkRemove(nets, name, fails) ==
    IF fails \/ name \notin nets
    THEN [ok |-> FALSE, nets |-> nets]
    ELSE [ok |-> TRUE, nets |-> nets \ {name}]

DockerNetworkConnect(cs, nets, id, name, fails) ==
    [ok |-> ~(fails \/ cs[id] = "absent" \/ name \notin nets)]

\* ---- API backend
CreateContainerAPI(cs, id, fails) ==
    LET d == DockerCreate(cs, id, fails)
    IN  IF d.ok THEN Outcome(d.cs, NoErr, FALSE, FALSE)
        ELSE Outcome(cs, Wrapped("failed to create container", "api"), FALSE, TRUE)

StartContainerAPI(cs, id, fails) ==
    LET d == DockerStart(cs, id, fails)
    IN  IF d.ok THEN Outcome(d.cs, NoErr, FALSE, FALSE)
        ELSE Outcome(cs, Wrapped("failed to start container", "api"), FALSE, TRUE)

StopContainerAPI(cs, id, fails) ==
    LET d == DockerStop(cs, id, fails)
    IN  IF d.ok THEN Outcome(d.cs, NoErr, FALSE, FALSE)
        ELSE Outcome(cs, Wrapped("failed to stop container", "api"), FALSE, TRUE)

RestartContainerAPI(cs, id, fails) ==
    LET d == DockerRestart(cs, id, fails)
    IN  IF d.ok THEN Outcome(d.cs, NoErr, FALSE, FALSE)
        ELSE Outcome(cs, Wrapped("failed to restart container", "api"), FALSE, TRUE)

RemoveContainerAPI(cs, id, fails) ==
    LET d == DockerRemove(cs, id, fails)
    IN  IF d.ok THEN Outcome(d.cs, NoErr, FALSE, FALSE)
        ELSE Outcome(cs, Wrapped("failed to remove container", "api"), FALSE, TRUE)

IsContainerRunningAPI(cs, id, fails) ==
    LET d == DockerInspect(cs, id, fails)
    IN  IF d.ok THEN Outcome(cs, NoErr, d.running, FALSE)
        ELSE Outcome(cs, Wrapped("failed to inspect container", "api"), FALSE, TRUE)

RemoveNetworkAPI(nets, name, fails) ==
    LET d == DockerNetworkRemove(nets, name, fails)
    IN  [nets |-> d.nets,
         err |-> IF d.ok THEN NoErr ELSE Wrapped("failed to remove network", "api"),
         failed |-> ~d.ok]

ConnectToNetworkAPI(cs, nets, id, name, fails) ==
    LET d == DockerNetworkConnect(cs, nets, id, name, fails)
    IN  [err |-> IF d.ok THEN NoErr
                 ELSE Wrapped("failed to connect container to network", "api"),
         failed |-> ~d.ok]

\* ---- CLI backend
CreateContainerCLI(cs, id, fails) ==
    LET d == DockerRun(cs, id, fails)
    IN  IF d.ok THEN Outcome(d.cs, NoErr, FALSE, FALSE)
        ELSE Outcome(cs, Wrapped("failed to create container", "cli"), FALSE, TRUE)

\* runs no command
StartContainerCLI(cs, id, fails) == Outcome(cs, NoErr, FALSE, FALSE)

StopContainerCLI(cs, id, fails) ==
    LET d == DockerStop(cs, id, fails)
    IN  IF d.ok THEN Outcome(d.cs, NoErr, FALSE, FALSE)
        ELSE Outcome(cs, Wrapped("failed to stop container", "cli"), FALSE, TRUE)

\* return cmd.Run()
RestartContainerCLI(cs, id, fails) ==
    LET d == DockerRestart(cs, id, fails)
    IN  IF d.ok THEN Outcome(d.cs, NoErr, FALSE, FALSE)
        ELSE Outcome(cs, Bare("cli"), FALSE, TRUE)

RemoveContainerCLI(cs, id, fails) ==
    LET d == DockerRemove(cs, id, fails)
    IN  IF d.ok THEN Outcome(d.cs, NoErr, FALSE, FALSE)
        ELSE Outcome(cs, Wrapped("failed to remove container", "cli"), FALSE, TRUE)

\* if err != nil { return false, nil }
IsContainerRunningCLI(cs, id, fails) ==
    LET d == DockerInspect(cs, id, fails)
    IN  IF d.ok THEN Outcome(cs, NoErr, d.running, FALSE)
        ELSE Outcome(cs, NoErr, FALSE, TRUE)

\* return cmd.Run()
RemoveNetworkCLI(nets, name, fails) ==
    LET d == DockerNetworkRemove(nets, name, fails)
    IN  [nets |-> d.nets, err |-> IF d.ok THEN NoErr ELSE Bare("cli"),
         failed |-> ~d.ok]

\* runs no command
ConnectToNetworkCLI(cs, nets, id, name, fails) == [err |-> NoErr, failed |-> FALSE]

\* ---- DockerClientReal: the containers map, no docker behind it.  An id
\* mapped to false is "created" after CreateContainer and "exited" after
\* StopContainer.
CreateContainerReal(cs, id, fails) ==
    Outcome([cs EXCEPT ![id] = "created"], NoErr, FALSE, FALSE)

StartContainerReal(cs, id, fails) ==
    Outcome([cs EXCEPT ![id] = "running"], NoErr, FALSE, FALSE)

StopContainerReal(cs, id, fails) ==
    Outcome([cs EXCEPT ![id] = "exited"], NoErr, FALSE, FALSE)

RestartContainerReal(cs, id, fails) == Outcome(cs, NoErr, FALSE, FALSE)

RemoveContainerReal(cs, id, fails) ==
    Outcome([cs EXCEPT ![id] = "absent"], NoErr, FALSE, FALSE)

\* return dc.containers[containerID], nil
IsContainerRunningReal(cs, id, fails) ==
    Outcome(cs, NoErr, cs[id] = "running", FALSE)

\* ---- the operations on a container, by backend
ContainerOps == {"CreateContainer", "StartContainer", "StopContainer",
                 "RestartContainer", "RemoveContainer", "IsContainerRunning"}

ContainerOp(b, op, cs, id, fails) ==
    CASE op = "CreateContainer" ->
           IF b = "api" THEN CreateContainerAPI(cs, id, fails)
           ELSE IF b = "cli" THEN CreateContainerCLI(cs, id, fails)
           ELSE CreateContainerReal(cs, id, fails)
      [] op = "StartContainer" ->
           IF b = "api" THEN StartContainerAPI(cs, id, fails)
           ELSE IF b = "cli" THEN StartContainerCLI(cs, id, fails)
           ELSE StartContainerReal(cs, id, fails)
      [] op = "StopContainer" ->
           IF b = "api" THEN StopContainerAPI(cs, id, fails)
           ELSE IF b = "cli" THEN StopContainerCLI(cs, id, fails)
           ELSE StopContainerReal(cs, id, fails)
      [] op = "RestartContainer" ->
           IF b = "api" THEN RestartContainerAPI(cs, id, fails)
           ELSE IF b = "cli" THEN RestartContainerCLI(cs, id, fails)
           ELSE RestartContainerReal(cs, id, fails)
      [] op = "RemoveContainer" ->
           IF b = "api" THEN RemoveContainerAPI(cs, id, fails)
           ELSE IF b = "cli" THEN RemoveContainerCLI(cs, id, fails)
           ELSE RemoveContainerReal(cs, id, fails)
      [] op = "IsContainerRunning" ->
           IF b = "api" THEN IsContainerRunningAPI(cs, id, fails)
           ELSE IF b = "cli" THEN IsContainerRunningCLI(cs, id, fails)
           ELSE IsContainerRunningReal(cs, id, fails)

MaxLcCalls == 3

NoLcCall == [op |-> "none", id |-> "none", name |-> <<>>, fails |-> FALSE,
             known |-> [b \in AllBackends |-> FALSE],
             err |-> [b \in AllBackends |-> NoErr],
             val |-> [b \in AllBackends |-> FALSE],
             failed |-> [b \in AllBackends |-> FALSE]]

\* the calls made on an id so far: whether CreateContainer was called with no
\* RemoveContainer since, and the last of the three run-state calls since the
\* id was last created or removed
NoHistory == [created |-> FALSE, last |-> "none"]

Record(h, op) ==
    CASE op = "CreateContainer" -> [created |-> TRUE, last |-> "none"]
      [] op = "RemoveContainer" -> NoHistory
      [] op \in {"StartContainer", "StopContainer", "RestartContainer"} ->
           [h EXCEPT !.last = op]
      [] OTHER -> h

\* one operation on a container, called on every backend
LcContainerCall(op, id) ==
    /\ lcCalls < MaxLcCalls
    /\ \E fails \in BOOLEAN :
         LET r == [b \in AllBackends |-> ContainerOp(b, op, rt[b], id, fails)]
         IN  /\ rt' = [b \in AllBackends |-> r[b].cs]
             /\ lcCall' = [op |-> op, id |-> id, name |-> <<>>, fails |-> fails,
                           known |-> [b \in AllBackends |-> rt[b][id] # "absent"],
                           err |-> [b \in AllBackends |-> r[b].err],
                           val |-> [b \in AllBackends |-> r[b].val],
                           failed |-> [b \in AllBackends |-> r[b].failed]]
    /\ lcHist' = [lcHist EXCEPT ![id] = Record(@, op)]
    /\ lcCalls' = lcCalls + 1
    /\ UNCHANGED <<rtNets, runtimeVars, launchVars, gwCalls, cpuVars,
                   failureVars, strangers, poolVars,
                   monitorVars>>

ChainOf(err, b) == IF err = Nil THEN NoErr ELSE Wrapped(err, b)

\* CreateNetwork, called on every backend; DockerClientReal only prints
LcCreateNetwork(name) ==
    /\ lcCalls < MaxLcCalls
    /\ \E queryFails \in BOOLEAN, createFails \in BOOLEAN :
         LET r == [b \in Backends |->
                     CreateNetwork(b, rtNets[b], name, queryFails, createFails)]
         IN  /\ rtNets' = [b \in AllBackends |->
                             IF b \in Backends THEN r[b].nets ELSE rtNets[b]]
             /\ lcCall' = [op |-> "CreateNetwork", id |-> "none", name |-> name,
                           fails |-> (queryFails \/ createFails),
                           known |-> [b \in AllBackends |-> name \in rtNets[b]],
                           err |-> [b \in AllBackends |->
                                      IF b \in Backends THEN ChainOf(r[b].err, b)
                                      ELSE NoErr],
                           val |-> [b \in AllBackends |-> FALSE],
                           failed |-> [b \in AllBackends |->
                                         b \in Backends /\ r[b].err # Nil]]
    /\ lcCalls' = lcCalls + 1
    /\ UNCHANGED <<rt, lcHist, runtimeVars, launchVars, gwCalls, cpuVars,
                   failureVars, strangers, poolVars,
                   monitorVars>>

\* RemoveNetwork, called on every backend; DockerClientReal returns nil
LcRemoveNetwork(name) ==
    /\ lcCalls < MaxLcCalls
    /\ \E fails \in BOOLEAN :
         LET r == [b \in Backends |->
                     IF b = "api" THEN RemoveNetworkAPI(rtNets[b], name, fails)
                     ELSE RemoveNetworkCLI(rtNets[b], name, fails)]
         IN  /\ rtNets' = [b \in AllBackends |->
                             IF b \in Backends THEN r[b].nets ELSE rtNets[b]]
             /\ lcCall' = [op |-> "RemoveNetwork", id |-> "none", name |-> name,
                           fails |-> fails,
                           known |-> [b \in AllBackends |-> name \in rtNets[b]],
                           err |-> [b \in AllBackends |->
                                      IF b \in Backends THEN r[b].err ELSE NoErr],
                           val |-> [b \in AllBackends |-> FALSE],
                           failed |-> [b \in AllBackends |->
                                         b \in Backends /\ r[b].failed]]
    /\ lcCalls' = lcCalls + 1
    /\ UNCHANGED <<rt, lcHist, runtimeVars, launchVars, gwCalls, cpuVars,
                   failureVars, strangers, poolVars,
                   monitorVars>>

\* ConnectToNetwork, called on every backend; DockerClientReal returns nil
LcConnectToNetwork(id, name) ==
    /\ lcCalls < MaxLcCalls
    /\ \E fails \in BOOLEAN :
         LET r == [b \in Backends |->
                     IF b = "api"
                     THEN ConnectToNetworkAPI(rt[b], rtNets[b], id, name, fails)
                     ELSE ConnectToNetworkCLI(rt[b], rtNets[b], id, name, fails)]
         IN  lcCall' = [op |-> "ConnectToNetwork", id |-> id, name |-> name,
                        fails |-> fails,
                        known |-> [b \in AllBackends |-> rt[b][id] # "absent"],
                        err |-> [b \in AllBackends |->
                                   IF b \in Backends THEN r[b].err ELSE NoErr],
                        val |-> [b \in AllBackends |-> FALSE],
                        failed |-> [b \in AllBackends |->
                                      b \in Backends /\ r[b].failed]]
    /\ lcCalls' = lcCalls + 1
    /\ UNCHANGED <<rt, rtNets, lcHist, runtimeVars, launchVars, gwCalls,
                   cpuVars, failureVars, strangers, poolVars,
                   monitorVars>>

----------------------------------------------------------------------------
(* GetContainerStats of the API backend and calculateCPUUsage.  The usage  *)
(* counters are unsigned: they are kept at CounterBits bits here (64 in    *)
(* the program) and their subtraction wraps.  The unit of a counter is     *)
(* 100,000,000 ns.  A float64 is the fraction num/den: every value that    *)
(* occurs is exact.                                                        *)

CounterBits == 16

Modulus == 2 ^ CounterBits

\* a - b on unsigned counters
SubUnsigned(a, b) == (a - b + Modulus) % Modulus

\* a - b, not wrapping
SubExact(a, b) == a - b

TotalSamples == {1, 3, 5}

SystemSamples == {0, 10}

OnlineCPUs == {2, 4}

Fraction(num, den) == [num |-> num, den |-> den]

ZeroPercent == Fraction(0, 1)

\* the zero value of types.CPUStats: what PreCPUStats holds when the daemon
\* has no earlier sample
ZeroCPUStats == [total |-> 0, system |-> 0, percpu |-> 0]

NoStats == [pre |-> ZeroCPUStats, cur |-> ZeroCPUStats, prior |-> FALSE, err |-> "none"]

\* len(PercpuUsage) of a sample taken on the host
PercpuLen(host) == IF host.percpu THEN host.online ELSE 0

CPUStatsSamples(host) ==
    [total : TotalSamples, system : SystemSamples, percpu : {PercpuLen(host)}]

calculateCPUUsage(s) ==
    IF s.pre.percpu = 0
    THEN ZeroPercent
    ELSE LET cpuDelta == SubUnsigned(s.cur.total, s.pre.total)
             systemDelta == SubUnsigned(s.cur.system, s.pre.system)
             numberCPUs == s.cur.percpu
         IN  IF systemDelta > 0 /\ cpuDelta > 0
             THEN Fraction(cpuDelta * numberCPUs * 100, systemDelta)
             ELSE ZeroPercent

\* DockerClient.GetContainerStats, API backend: one sample is asked of the
\* daemon, which fills PreCPUStats when it has an earlier sample
GetContainerStats ==
    \/ \E failure \in {"failed to get container stats", "failed to decode stats"} :
          /\ stats' = [NoStats EXCEPT !.err = failure]
          /\ cpuUsage' = ZeroPercent
          /\ UNCHANGED <<cpuHost, runtimeVars, launchVars, gwCalls,
                         lifecycleVars, failureVars, strangers,
                         poolVars, monitorVars>>
    \/ \E prior \in BOOLEAN, cpuStats \in CPUStatsSamples(cpuHost) :
       \E preCPUStats \in (IF prior THEN CPUStatsSamples(cpuHost) ELSE {ZeroCPUStats}) :
          /\ stats' = [pre |-> preCPUStats, cur |-> cpuStats, prior |-> prior,
                       err |-> Nil]
          /\ cpuUsage' = calculateCPUUsage(stats')
          /\ UNCHANGED <<cpuHost, runtimeVars, launchVars, gwCalls,
                         lifecycleVars, failureVars, strangers,
                         poolVars, monitorVars>>

----------------------------------------------------------------------------
(* CLIHandler.HandleTemporaryFailure: the temporary-failure command.       *)

\* what the handler prints through feedback.Info
ProcessMessages ==
    <<"Simulating failure for node", "Process:", "1. Stop the node container",
      "2. Wait 40 seconds", "3. Restart the node automatically",
      "4. Monitor recovery with 'benchy infos'">>

ComingSoon == "Implementation coming soon..."

\* the handler: it prints the process (and, in the first of the two copies of
\* the handler, a warning) and returns nil; it makes no call on the container
\* runtime.  wasUp and wentDown record the node's container before the call
\* and after it.
HandleTemporaryFailure(nodeName) ==
    /\ tf.pc = "idle"
    /\ UNCHANGED <<runtimeVars, strangers, launchVars, gatewayVars, poolVars,
                   monitorVars>>
    /\ \E warns \in BOOLEAN :
         tf' = [pc |-> "returned",
                node |-> nodeName,
                infos |-> ProcessMessages,
                warnings |-> IF warns THEN <<ComingSoon>> ELSE <<>>,
                ret |-> Nil,
                wasUp |-> containers[nodeName] = "running",
                wentDown |-> containers'[nodeName] # "running"]

----------------------------------------------------------------------------
(* EthereumClient: ConnectToNode and DisconnectFromNode, called by         *)
(* concurrent threads.                                                     *)

Endpoints == {"http://localhost:8545", "http://localhost:8546"}

NumThreads == 2

Threads == 1..NumThreads

MaxPoolCalls == 4

NoCall == [op |-> "none", ep |-> "none", err |-> "none", found |-> FALSE,
           opened |-> 0, probed |-> FALSE, before |-> <<>>, intact |-> TRUE,
           absent |-> TRUE, handle |-> 0, rpcs |-> 0, second |-> FALSE,
           closed |-> 0, others |-> TRUE]

NeverConnected(cl, e) == FALSE

\* the entry test of ConnectToNode
AlreadyConnected(cl, e) == cl[e] # 0

LeakAfterProbeFailure(ts, id) == ts

\* rpcClient.Close() on the probe-failure path
CloseAfterProbeFailure(ts, id) == [ts EXCEPT ![id].open = FALSE]

KeepOnDisconnect(ts, id) == ts

\* rpcClient.Close() in DisconnectFromNode
CloseOnDisconnect(ts, id) == [ts EXCEPT ![id].open = FALSE]

CanLockAlways == TRUE

\* ec.mutex.Lock()
CanLock == mutex.writer = 0 /\ mutex.readers = {}

\* ec.mutex.RLock(): refused only while a writer holds the lock.  (While a
\* writer waits, sync.RWMutex also holds new readers back; that removes
\* interleavings and adds none.)
CanRLock == mutex.writer = 0

RUnlockKept(m, t) == m

\* the deferred ec.mutex.RUnlock() of getClient and getRPCClient
RUnlock(m, t) == [m EXCEPT !.readers = @ \ {t}]

Unlocked == [writer |-> 0, readers |-> {}]

\* what a returning call leaves in call[t]: the snapshot taken under the
\* lock is compared with the pool as the call leaves it, and whether the
\* pool then holds an entry for the endpoint is noted
Returned(c, err, cl, rc) ==
    [c EXCEPT !.err = err, !.intact = (c.before = <<cl, rc>>), !.before = <<>>,
              !.absent = (cl[c.ep] = 0 /\ rc[c.ep] = 0)]

ConnectToNode_Call(t, e) ==
    /\ tpc[t] = "idle"
    /\ poolCalls < MaxPoolCalls
    /\ poolCalls' = poolCalls + 1
    /\ tpc' = [tpc EXCEPT ![t] = "c_lock"]
    /\ call' = [call EXCEPT ![t] = [NoCall EXCEPT !.op = "connect", !.ep = e]]
    /\ UNCHANGED <<clients, rpcClients, mutex, transports, sinceConnect,
                   runtimeVars, launchVars, gatewayVars, failureVars, strangers,
                   monitorVars>>

\* ec.mutex.Lock(), then the test whether the endpoint is already connected
ConnectToNode_Lock(t) ==
    /\ tpc[t] = "c_lock"
    /\ CanLock
    /\ LET e == call[t].ep
           c == [call[t] EXCEPT !.before = <<clients, rpcClients>>]
       IN  IF AlreadyConnected(clients, e)
           THEN /\ mutex' = Unlocked
                /\ tpc' = [tpc EXCEPT ![t] = "idle"]
                /\ call' = [call EXCEPT ![t] =
                              Returned([c EXCEPT !.found = TRUE], Nil, clients, rpcClients)]
           ELSE /\ mutex' = [mutex EXCEPT !.writer = t]
                /\ tpc' = [tpc EXCEPT ![t] = "c_dial"]
                /\ call' = [call EXCEPT ![t] = c]
    /\ UNCHANGED <<clients, rpcClients, transports, sinceConnect, poolCalls,
                   runtimeVars, launchVars, gatewayVars, failureVars, strangers,
                   monitorVars>>

\* rpc.DialContext
ConnectToNode_Dial(t) ==
    /\ tpc[t] = "c_dial"
    /\ \E ok \in BOOLEAN :
         IF ok
         THEN /\ transports' = Append(transports, [ep |-> call[t].ep, open |-> TRUE])
              /\ call' = [call EXCEPT ![t].opened = Len(transports) + 1]
              /\ tpc' = [tpc EXCEPT ![t] = "c_probe"]
              /\ mutex' = mutex
         ELSE /\ transports' = transports
              /\ call' = [call EXCEPT ![t] =
                            Returned(call[t], "failed to connect to RPC", clients, rpcClients)]
              /\ tpc' = [tpc EXCEPT ![t] = "idle"]
              /\ mutex' = Unlocked
    /\ UNCHANGED <<clients, rpcClients, sinceConnect, poolCalls,
                   runtimeVars, launchVars, gatewayVars, failureVars, strangers,
                   monitorVars>>

\* ethClient.NetworkID, then either Close and return or store the clients
ConnectToNode_Probe(t) ==
    /\ tpc[t] = "c_probe"
    /\ \E ok \in BOOLEAN :
         LET e  == call[t].ep
             id == call[t].opened
             c  == [call[t] EXCEPT !.probed = TRUE]
         IN  IF ok
             THEN /\ clients' = [clients EXCEPT ![e] = id]
                  /\ rpcClients' = [rpcClients EXCEPT ![e] = id]
                  /\ transports' = transports
                  /\ sinceConnect' = [sinceConnect EXCEPT ![e] = @ + 1]
                  /\ call' = [call EXCEPT ![t] = Returned(c, Nil, clients', rpcClients')]
             ELSE /\ clients' = clients
                  /\ rpcClients' = rpcClients
                  /\ transports' = CloseAfterProbeFailure(transports, id)
                  /\ sinceConnect' =
                        IF clients[e] # 0
                        THEN [sinceConnect EXCEPT ![e] = @ + 1]
                        ELSE sinceConnect
                  /\ call' = [call EXCEPT ![t] =
                                Returned(c, "failed to get network ID", clients, rpcClients)]
    /\ tpc' = [tpc EXCEPT ![t] = "idle"]
    /\ mutex' = Unlocked
    /\ UNCHANGED <<poolCalls, runtimeVars, launchVars, gatewayVars,
                   failureVars, strangers,
                   monitorVars>>

\* what a returning DisconnectFromNode leaves in call[t]: whether it found
\* an entry and which transport that entry held, whether the pool is as it
\* was found, and whether everything that belongs to the other endpoints
\* (their entries and their transports) is as it was found
DisconnectReturned(c, cl, rc, ts, cl2, rc2, ts2) ==
    [c EXCEPT !.err = Nil,
              !.found = (rc[c.ep] # 0),
              !.closed = rc[c.ep],
              !.intact = (cl2 = cl /\ rc2 = rc /\ ts2 = ts),
              !.absent = (cl2[c.ep] = 0 /\ rc2[c.ep] = 0),
              !.others = /\ \A o \in Endpoints \ {c.ep} :
                               cl2[o] = cl[o] /\ rc2[o] = rc[o]
                         /\ Len(ts2) = Len(ts)
                         /\ \A id \in 1..Len(ts) :
                               ts[id].ep # c.ep => ts2[id] = ts[id]]

DisconnectFromNode_Call(t, e) ==
    /\ tpc[t] = "idle"
    /\ poolCalls < MaxPoolCalls
    /\ poolCalls' = poolCalls + 1
    /\ tpc' = [tpc EXCEPT ![t] = "d_lock"]
    /\ call' = [call EXCEPT ![t] = [NoCall EXCEPT !.op = "disconnect", !.ep = e]]
    /\ UNCHANGED <<clients, rpcClients, mutex, transports, sinceConnect,
                   runtimeVars, launchVars, gatewayVars, failureVars, strangers,
                   monitorVars>>

\* the whole body runs under ec.mutex.Lock()
DisconnectFromNode_Body(t) ==
    /\ tpc[t] = "d_lock"
    /\ CanLock
    /\ LET e == call[t].ep
       IN  IF rpcClients[e] # 0
           THEN /\ transports' = CloseOnDisconnect(transports, rpcClients[e])
                /\ clients' = [clients EXCEPT ![e] = 0]
                /\ rpcClients' = [rpcClients EXCEPT ![e] = 0]
                /\ sinceConnect' = [sinceConnect EXCEPT ![e] = 0]
           ELSE /\ UNCHANGED <<transports, clients, rpcClients, sinceConnect>>
    /\ call' = [call EXCEPT ![t] = DisconnectReturned(call[t], clients, rpcClients,
                                                      transports, clients', rpcClients',
                                                      transports')]
    /\ tpc' = [tpc EXCEPT ![t] = "idle"]
    /\ mutex' = Unlocked
    /\ UNCHANGED <<poolCalls, runtimeVars, launchVars, gatewayVars,
                   failureVars, strangers,
                   monitorVars>>

\* The read operations: each looks its endpoint up with getClient, except
\* GetPeerCount, which uses getRPCClient.  call[t] keeps of the operation
\* what the rest of the call depends on: the lookup function (op) and whether
\* a second RPC may follow (second).
ReadOps == {"GetLatestBlockNumber", "GetPeerCount", "GetPendingTransactionCount",
            "GetBalance", "GetNonce", "GetTransactionStatus",
            "GetTransactionReceipt"}

\* the lookup function an operation calls first
LookupOf(op) == IF op = "GetPeerCount" THEN "getRPCClient" ELSE "getClient"

Lookups == {LookupOf(op) : op \in ReadOps}

\* the map that lookup function reads
PoolMapOf(lookup, cl, rc) == IF lookup = "getRPCClient" THEN rc ELSE cl

\* whether a second RPC may follow the first
HasSecondRPC(op) == op = "GetTransactionStatus"

ErrNotConnected == "not connected to node"

ExistsAlways(m, e) == TRUE

\* client, exists := ec.clients[nodeURL]  (ec.rpcClients in getRPCClient)
Exists(m, e) == m[e] # 0

ReadCall(t, e, op) ==
    /\ tpc[t] = "idle"
    /\ poolCalls < MaxPoolCalls
    /\ poolCalls' = poolCalls + 1
    /\ tpc' = [tpc EXCEPT ![t] = "r_rlock"]
    /\ call' = [call EXCEPT ![t] = [NoCall EXCEPT !.op = LookupOf(op), !.ep = e,
                                                  !.second = HasSecondRPC(op)]]
    /\ UNCHANGED <<clients, rpcClients, mutex, transports, sinceConnect,
                   runtimeVars, launchVars, gatewayVars, failureVars, strangers,
                   monitorVars>>

\* ec.mutex.RLock() in getClient / getRPCClient
GetClient_RLock(t) ==
    /\ tpc[t] = "r_rlock"
    /\ CanRLock
    /\ mutex' = [mutex EXCEPT !.readers = @ \cup {t}]
    /\ tpc' = [tpc EXCEPT ![t] = "r_lookup"]
    /\ UNCHANGED <<clients, rpcClients, transports, call, sinceConnect,
                   poolCalls,
                   runtimeVars, launchVars, gatewayVars, failureVars, strangers,
                   monitorVars>>

\* the map lookup, the return of getClient / getRPCClient (which runs the
\* deferred RUnlock), and the caller's return when the lookup failed
GetClient_Lookup(t) ==
    /\ tpc[t] = "r_lookup"
    /\ LET e == call[t].ep
           m == PoolMapOf(call[t].op, clients, rpcClients)
           c == [call[t] EXCEPT !.absent = (clients[e] = 0 /\ rpcClients[e] = 0)]
       IN  IF Exists(m, e)
           THEN /\ call' = [call EXCEPT ![t] = [c EXCEPT !.found = TRUE, !.handle = m[e]]]
                /\ tpc' = [tpc EXCEPT ![t] = "r_rpc"]
           ELSE /\ call' = [call EXCEPT ![t] = [c EXCEPT !.err = ErrNotConnected,
                                                         !.second = FALSE]]
                /\ tpc' = [tpc EXCEPT ![t] = "idle"]
    /\ mutex' = RUnlock(mutex, t)
    /\ UNCHANGED <<clients, rpcClients, transports, sinceConnect, poolCalls,
                   runtimeVars, launchVars, gatewayVars, failureVars, strangers,
                   monitorVars>>

\* the RPC call on the client that the lookup returned; an RPC on a closed
\* transport fails.  GetTransactionStatus goes on to a second RPC
\* (TransactionReceipt) when the first succeeds and the transaction is not
\* pending.
ReadRPC(t) ==
    /\ tpc[t] = "r_rpc"
    /\ LET h    == call[t].handle
           live == h # 0 /\ transports[h].open
           c    == [call[t] EXCEPT !.rpcs = @ + 1, !.handle = 0]
       IN  \E ok \in (IF live THEN BOOLEAN ELSE {FALSE}), more \in BOOLEAN :
             IF ~ok
             THEN /\ ~more
                  /\ call' = [call EXCEPT ![t] = [c EXCEPT !.err = "rpc failed",
                                                           !.second = FALSE]]
                  /\ tpc' = [tpc EXCEPT ![t] = "idle"]
             ELSE IF more
                  THEN /\ call[t].second
                       /\ call' = [call EXCEPT ![t] = [c EXCEPT !.handle = h]]
                       /\ tpc' = [tpc EXCEPT ![t] = "r_rpc2"]
                  ELSE /\ call' = [call EXCEPT ![t] = [c EXCEPT !.err = Nil,
                                                                !.second = FALSE]]
                       /\ tpc' = [tpc EXCEPT ![t] = "idle"]
    /\ UNCHANGED <<clients, rpcClients, mutex, transports, sinceConnect,
                   poolCalls,
                   runtimeVars, launchVars, gatewayVars, failureVars, strangers,
                   monitorVars>>

\* client.TransactionReceipt in GetTransactionStatus: its error is turned
\* into the status Pending, so the call returns nil either way
ReadSecondRPC(t) ==
    /\ tpc[t] = "r_rpc2"
    /\ call' = [call EXCEPT ![t] = [call[t] EXCEPT !.rpcs = @ + 1, !.err = Nil,
                                                    !.handle = 0, !.second = FALSE]]
    /\ tpc' = [tpc EXCEPT ![t] = "idle"]
    /\ UNCHANGED <<clients, rpcClients, mutex, transports, sinceConnect,
                   poolCalls,
                   runtimeVars, launchVars, gatewayVars, failureVars, strangers,
                   monitorVars>>

----------------------------------------------------------------------------
(* MonitoringService.displayOneShotInfo: one snapshot.  It runs in one     *)
(* goroutine; it is cut into steps at its external calls (docker ps,       *)
(* docker stats, ConnectToNode, the three chain queries, DisplayTable).    *)

\* what time.Now().Unix() may return while a snapshot is taken
TimeValues == {1700000000, 1700000051}

\* what docker stats may report: CPU in hundredths of a percent, memory in
\* tenths of a MiB
StatsSamples == {[err |-> Nil, cpu |-> 1234, mem |-> 2565]}

\* getRealContainerStats returns an error: docker stats failed, or its
\* output has fewer than two columns
StatsFailed == [err |-> "failed to get container stats", cpu |-> 0, mem |-> 0]

\* what the queried node may answer
BlockSamples == {0, 42}

PeerSamples == {0, 3}

PendingSamples == {0, 2}

\* the states of a container that docker ps (without -a) lists
PsLists(state) == state \in {"running", "restarting"}

\* the {{.Status}} column of docker ps
StatusOf(state) ==
    CASE state = "running"    -> <<"Up", " 2 hours">>
      [] state = "restarting" -> <<"Restarting", " (1) 5 seconds ago">>
      [] state = "exited"     -> <<"Exited", " (0) 2 hours ago">>
      [] OTHER                -> <<"Created">>

ContainerName(n) == <<"benchy-", n>>

\* strings.TrimPrefix
TrimPrefix(name, prefix) ==
    IF Len(name) >= Len(prefix) /\ SubSeq(name, 1, Len(prefix)) = prefix
    THEN SubSeq(name, Len(prefix) + 1, Len(name))
    ELSE name

getNodeRPCPortShared(nodeName) == 8545

getNodeRPCPort(nodeName) ==
    CASE nodeName = <<"alice">>     -> 8545
      [] nodeName = <<"bob">>       -> 8546
      [] nodeName = <<"cassandra">> -> 8547
      [] nodeName = <<"driss">>     -> 8548
      [] nodeName = <<"elena">>     -> 8549
      [] OTHER                      -> 8545

\* fmt.Sprintf("http://localhost:%d", container.RPCPort)
NodeURL(port) ==
    CASE port = 8545 -> "http://localhost:8545"
      [] port = 8546 -> "http://localhost:8546"
      [] port = 8547 -> "http://localhost:8547"
      [] port = 8548 -> "http://localhost:8548"
      [] port = 8549 -> "http://localhost:8549"

NodeURLs == {NodeURL(getNodeRPCPort(<<n>>)) : n \in Nodes}

\* node names outside the five of the fleet, newest first
StrangerOrder == <<"grace", "frank">>

StrangerNames == { StrangerOrder[i] : i \in 1..Len(StrangerOrder) }

\* docker ps lists the newest container first; the fleet is created in the
\* launch order
PsOrder == [i \in 1..NumNodes |-> Order[NumNodes + 1 - i]]

\* docker ps --filter name=benchy- and the parsing of its lines
\* extra: the running containers outside the fleet, created after it
getRealBenchyContainers(cs, extra) ==
    LET state(n)  == IF n \in Nodes THEN cs[n] ELSE "running"
        listed(n) == PsLists(state(n)) /\ Contains(ContainerName(n), <<"benchy-">>)
        there(n)  == n \in extra
        names     == SelectSeq(StrangerOrder, there) \o SelectSeq(PsOrder, listed)
    IN  [i \in 1..Len(names) |->
           LET nodeName == TrimPrefix(ContainerName(names[i]), <<"benchy-">>)
           IN  [id |-> names[i],
                name |-> ContainerName(names[i]),
                nodeName |-> nodeName,
                status |-> StatusOf(state(names[i])),
                rpcPort |-> getNodeRPCPort(nodeName)]]

IsUpAlways(status) == TRUE

\* strings.Contains(container.Status, "Up")
IsUp(status) == Contains(status, <<"Up">>)

Offline == <<"cross", "Offline">>

ConnectFailedStatus == <<"cycle", "Starting">>

Online == <<"check", "Online">>

Syncing == <<"cycle", "Syncing">>

Starting == <<"hourglass", "Starting">>

\* the fallback values of getRealNodeInfo
DefaultCPU == 50

DefaultMemory == 1280

DefaultPeerCount == 0

DefaultPendingTxs == 0

ETHBalance == 1000

BlockBase == 1234

\* uint64(1234 + int(time.Now().Unix()%100)): the block height shown when
\* the connect or the block query failed
BlockOnFailure(now) == BlockBase + (now % 100)

\* uint64(1234 + int(time.Now().Unix()%50)): the block height shown when the
\* block query succeeded; the queried value is dropped
BlockOnSuccess(queried, now) == BlockBase + (now % 50)

StatsOrZero(r) == IF r.err # Nil THEN [cpu |-> 0, mem |-> 0] ELSE r

\* the CPU and memory of a node from the result of getRealContainerStats
StatsOrDefault(r) ==
    IF r.err # Nil THEN [cpu |-> DefaultCPU, mem |-> DefaultMemory] ELSE r

\* the final status of a node whose connect succeeded
StatusDisplay(i) ==
    IF i.peers > 0 THEN Online
    ELSE IF i.block > 0 THEN Syncing
    ELSE Starting

\* the value displayOneShotInfo returns after the table and the summary
SnapshotDone == Nil

\* the value displayOneShotInfo returns when len(containers) == 0
NoContainersResult == Nil

\* feedback.DisplayTable: the console renderer shows the table
DisplayTableErr == Nil

NoInfo == [status |-> <<>>, block |-> 0, peers |-> 0, pending |-> 0,
           cpu |-> 0, mem |-> 0, balance |-> 0]

\* reachable: whether the RPC endpoint of the node answers while its row
\* is built
NoSteps == [stats |-> "none", connect |-> "none", block |-> "none",
            peers |-> "none", pending |-> "none",
            blockValue |-> 0, peersValue |-> 0, pendingValue |-> 0,
            reachable |-> FALSE]

NoRow == [node |-> <<>>, status |-> <<>>, block |-> "N/A", peers |-> "N/A",
          cpu |-> "N/A", mem |-> "N/A", balance |-> "N/A", container |-> "none"]

\* "%.1f%%" and "%.0fMB": one decimal of a percent, whole megabytes
FormatCPU(c) == (c + 5) \div 10

FormatMemory(m) == (m + 5) \div 10

\* the row displayOneShotInfo appends when getRealNodeInfo returned an error
OfflineRow(c) ==
    [node |-> c.nodeName, status |-> Offline, block |-> "N/A", peers |-> "N/A",
     cpu |-> "N/A", mem |-> "N/A", balance |-> "N/A", container |-> c.id]

\* the row displayOneShotInfo appends from the NodeInfo
RowOf(c, i) ==
    [node |-> c.nodeName, status |-> i.status, block |-> i.block, peers |-> i.peers,
     cpu |-> FormatCPU(i.cpu), mem |-> FormatMemory(i.mem), balance |-> i.balance,
     container |-> c.id]

\* ---- the answers the runtime and a node give while a snapshot is taken.
\* They are free when run = 0; in runs 1 and 2 they are read from the tape,
\* so that both runs see the same answers about the same node.
Answer(ok, v) == [ok |-> ok, v |-> v]

NoAnswer == Answer(FALSE, 0)

AllOk == [stats |-> [err |-> Nil, cpu |-> 1234, mem |-> 2565],
          connect |-> "ok", now |-> 1700000000,
          block |-> Answer(TRUE, 42), peers |-> Answer(TRUE, 3),
          pending |-> Answer(TRUE, 2)]

Unreachable == [stats |-> StatsFailed,
                connect |-> "dial failed", now |-> 1700000051,
                block |-> NoAnswer, peers |-> NoAnswer, pending |-> NoAnswer]

Degraded == [stats |-> [err |-> Nil, cpu |-> 1234, mem |-> 2565],
             connect |-> "ok", now |-> 1700000051,
             block |-> Answer(TRUE, 0), peers |-> Answer(TRUE, 0),
             pending |-> NoAnswer]

Profiles == {AllOk, Unreachable, Degraded}

Taped == run # 0

PsFailures == IF Taped THEN {FALSE} ELSE BOOLEAN

StatsChoices(id) ==
    IF Taped THEN {tape[id].stats} ELSE {StatsFailed} \cup StatsSamples

ConnectChoices(id) ==
    IF Taped THEN {tape[id].connect} ELSE {"ok", "dial failed", "probe failed"}

\* whether the endpoint answers, asked when the pool holds its connection
ReachChoices(id) == IF Taped THEN {tape[id].connect = "ok"} ELSE BOOLEAN

NowChoices(id) == IF Taped THEN {tape[id].now} ELSE TimeValues

BlockChoices(id) ==
    IF Taped THEN {tape[id].block}
    ELSE {NoAnswer} \cup {Answer(TRUE, v) : v \in BlockSamples}

PeerChoices(id) ==
    IF Taped THEN {tape[id].peers}
    ELSE {NoAnswer} \cup {Answer(TRUE, v) : v \in PeerSamples}

PendingChoices(id) ==
    IF Taped THEN {tape[id].pending}
    ELSE {NoAnswer} \cup {Answer(TRUE, v) : v \in PendingSamples}

IsContinuousOrZero(interval) == interval >= 0

\* DisplayNetworkInfo: if updateInterval > 0
IsContinuous(interval) == interval > 0

\* DisplayNetworkInfo in one-shot mode: the call of displayOneShotInfo, up to
\* the call of docker ps
DisplayEntry ==
    /\ mpc = "idle"
    /\ cpc = "idle"
    /\ snapshots = 0
    /\ ~IsContinuous(updateInterval)
    /\ mpc' = "discover"
    /\ snapshots' = snapshots + 1
    /\ lateSnapshot' = (lateSnapshot \/ cancelled)
    /\ UNCHANGED <<discovered, mi, info, steps, row, rowNames, warned,
                   tableShown,
                   mErr, updateInterval, cpc, cancelled, tickPending, ticksFired,
                   ticksTaken, cRet, reported,
                   isoVars, runtimeVars, launchVars, gatewayVars,
                   failureVars, strangers, poolVars>>

\* getRealBenchyContainers returns; no container: warn and return
Discover ==
    /\ mpc = "discover"
    /\ \E fails \in PsFailures :
         IF fails
         THEN /\ mErr' = "failed to get containers"
              /\ mpc' = "done"
              /\ UNCHANGED <<discovered, warned>>
         ELSE /\ discovered' = getRealBenchyContainers(containers, strangers)
              /\ IF Len(discovered') = 0
                 THEN warned' = TRUE /\ mErr' = NoContainersResult /\ mpc' = "done"
                 ELSE warned' = warned /\ mErr' = mErr /\ mpc' = "status"
    /\ UNCHANGED <<mi, info, steps, row, rowNames, tableShown,
                   loopVars,
                   isoVars, runtimeVars, launchVars, gatewayVars,
                   failureVars, strangers, poolVars>>

\* getRealNodeInfo, step 1; a container that is not up gets its row at once
NodeStatus ==
    /\ mpc = "status"
    /\ LET c == discovered[mi]
       IN  IF ~IsUp(c.status)
           THEN /\ info' = [info EXCEPT !.status = Offline]
                /\ row' = OfflineRow(c)
                /\ rowNames' = Append(rowNames, c.nodeName)
                /\ mpc' = "row"
           ELSE /\ mpc' = "stats"
                /\ UNCHANGED <<info, row, rowNames>>
    /\ UNCHANGED <<discovered, mi, steps, warned, tableShown, mErr,
                   loopVars,
                   isoVars, runtimeVars, launchVars, gatewayVars,
                   failureVars, strangers, poolVars>>

\* getRealNodeInfo, step 2: docker stats
NodeStats ==
    /\ mpc = "stats"
    /\ \E r \in StatsChoices(discovered[mi].id) :
         /\ steps' = [steps EXCEPT !.stats = IF r.err # Nil THEN "failed" ELSE "ok"]
         /\ info' = [info EXCEPT !.cpu = StatsOrDefault(r).cpu,
                                 !.mem = StatsOrDefault(r).mem]
    /\ mpc' = "connect"
    /\ UNCHANGED <<discovered, mi, row, rowNames, warned, tableShown, mErr,
                   loopVars,
                   isoVars, runtimeVars, launchVars, gatewayVars,
                   failureVars, strangers, poolVars>>

\* getRealNodeInfo, step 3: ethClient.ConnectToNode, the whole call; when it
\* fails the node gets its row at once
NodeConnect ==
    /\ mpc = "connect"
    /\ LET c    == discovered[mi]
           url  == NodeURL(c.rpcPort)
           id   == Len(transports) + 1
           dial == Append(transports, [ep |-> url, open |-> TRUE])
           failed(now) ==
               /\ steps' = [steps EXCEPT !.connect = "failed"]
               /\ info' = [info EXCEPT !.status = ConnectFailedStatus,
                                       !.block = BlockOnFailure(now),
                                       !.peers = DefaultPeerCount,
                                       !.balance = ETHBalance]
               /\ row' = RowOf(c, info')
               /\ rowNames' = Append(rowNames, c.nodeName)
               /\ mpc' = "row"
           connected(up) ==
               /\ steps' = [steps EXCEPT !.connect = "ok", !.reachable = up]
               /\ mpc' = "block"
               /\ UNCHANGED <<info, row, rowNames>>
       IN  IF AlreadyConnected(clients, url)
           THEN /\ \E up \in ReachChoices(c.id) : connected(up)
                /\ UNCHANGED <<clients, rpcClients, transports, sinceConnect>>
           ELSE \/ \E now \in NowChoices(c.id) :
                     /\ "dial failed" \in ConnectChoices(c.id)
                     /\ failed(now)
                     /\ UNCHANGED <<clients, rpcClients, transports,
                                    sinceConnect>>
                \/ \E now \in NowChoices(c.id) :
                     /\ "probe failed" \in ConnectChoices(c.id)
                     /\ failed(now)
                     /\ transports' = CloseAfterProbeFailure(dial, id)
                     /\ UNCHANGED <<clients, rpcClients, sinceConnect>>
                \/ /\ "ok" \in ConnectChoices(c.id)
                   /\ connected(TRUE)
                   /\ transports' = dial
                   /\ clients' = [clients EXCEPT ![url] = id]
                   /\ rpcClients' = [rpcClients EXCEPT ![url] = id]
                   /\ sinceConnect' = [sinceConnect EXCEPT ![url] = @ + 1]
    /\ UNCHANGED <<discovered, mi, warned, tableShown, mErr, mutex, tpc, call,
                   poolCalls, loopVars, isoVars, runtimeVars, launchVars,
                   gatewayVars, failureVars, strangers>>

\* getRealNodeInfo, step 4a: ethClient.GetLatestBlockNumber
NodeBlock ==
    /\ mpc = "block"
    /\ LET c   == discovered[mi]
           url == NodeURL(c.rpcPort)
       IN  \E now \in NowChoices(c.id), a \in BlockChoices(c.id) :
             IF a.ok /\ steps.reachable /\ Exists(clients, url)
             THEN /\ steps' = [steps EXCEPT !.block = "ok", !.blockValue = a.v]
                  /\ info' = [info EXCEPT !.block = BlockOnSuccess(a.v, now)]
             ELSE /\ steps' = [steps EXCEPT !.block = "failed"]
                  /\ info' = [info EXCEPT !.block = BlockOnFailure(now)]
    /\ mpc' = "peers"
    /\ UNCHANGED <<discovered, mi, row, rowNames, warned, tableShown, mErr,
                   loopVars,
                   isoVars, runtimeVars, launchVars, gatewayVars,
                   failureVars, strangers, poolVars>>

\* getRealNodeInfo, step 4b: ethClient.GetPeerCount
NodePeers ==
    /\ mpc = "peers"
    /\ LET c   == discovered[mi]
           url == NodeURL(c.rpcPort)
       IN  \E a \in PeerChoices(c.id) :
             IF a.ok /\ steps.reachable /\ Exists(rpcClients, url)
             THEN /\ steps' = [steps EXCEPT !.peers = "ok", !.peersValue = a.v]
                  /\ info' = [info EXCEPT !.peers = a.v]
             ELSE /\ steps' = [steps EXCEPT !.peers = "failed"]
                  /\ info' = [info EXCEPT !.peers = DefaultPeerCount]
    /\ mpc' = "pending"
    /\ UNCHANGED <<discovered, mi, row, rowNames, warned, tableShown, mErr,
                   loopVars,
                   isoVars, runtimeVars, launchVars, gatewayVars,
                   failureVars, strangers, poolVars>>

\* getRealNodeInfo, steps 4c to 6: ethClient.GetPendingTransactionCount, the
\* balance, the final status; then the row is appended
NodePending ==
    /\ mpc = "pending"
    /\ LET c   == discovered[mi]
           url == NodeURL(c.rpcPort)
           finish(i) == [i EXCEPT !.balance = ETHBalance,
                                  !.status = StatusDisplay(i)]
       IN  /\ \E a \in PendingChoices(c.id) :
                IF a.ok /\ steps.reachable /\ Exists(clients, url)
                THEN /\ steps' = [steps EXCEPT !.pending = "ok", !.pendingValue = a.v]
                     /\ info' = finish([info EXCEPT !.pending = a.v])
                ELSE /\ steps' = [steps EXCEPT !.pending = "failed"]
                     /\ info' = finish([info EXCEPT !.pending = DefaultPendingTxs])
           /\ row' = RowOf(c, info')
           /\ rowNames' = Append(rowNames, c.nodeName)
    /\ mpc' = "row"
    /\ UNCHANGED <<discovered, mi, warned, tableShown, mErr,
                   loopVars,
                   isoVars, runtimeVars, launchVars, gatewayVars,
                   failureVars, strangers, poolVars>>

LoopStopsOnOffline(i, n, st) == i < n /\ st # Offline

\* for _, container := range containers, with `continue` after the Offline
\* row: the loop goes on whatever the status of the row just appended
LoopContinues(i, n, st) == i < n

\* the loop goes on to the next container, or ends
NextContainer ==
    /\ mpc = "row"
    /\ IF LoopContinues(mi, Len(discovered), row.status)
       THEN mi' = mi + 1 /\ mpc' = "status"
       ELSE mi' = mi /\ mpc' = "display"
    /\ info' = NoInfo
    /\ steps' = NoSteps
    /\ row' = NoRow
    /\ baseline' = IF run = 1 THEN [baseline EXCEPT ![discovered[mi].id] = row]
                   ELSE baseline
    /\ UNCHANGED <<discovered, rowNames, warned, tableShown, mErr,
                   loopVars,
                   run, tape, down, runtimeVars, launchVars, gatewayVars,
                   failureVars, strangers, poolVars>>

\* feedback.DisplayTable, displayRealNetworkSummary, return
DisplayTable ==
    /\ mpc = "display"
    /\ IF DisplayTableErr # Nil
       THEN tableShown' = tableShown /\ mErr' = "failed to display table"
       ELSE tableShown' = TRUE /\ mErr' = SnapshotDone
    /\ mpc' = "done"
    /\ UNCHANGED <<discovered, mi, info, steps, row, rowNames, warned,
                   loopVars,
                   isoVars, runtimeVars, launchVars, gatewayVars,
                   failureVars, strangers, poolVars>>

----------------------------------------------------------------------------
(* MonitoringService.continuousMonitoring: a snapshot at once, then one    *)
(* for every tick received from ticker.C, until ctx is done.               *)

MaxTicks == 2

\* the values of updateInterval tried
Intervals == {-1, 0, 5}

NoCause == Nil

\* ctx.Err() once ctx is done
CancelCause == "context canceled"

\* a call of displayOneShotInfo starts: its locals are fresh
SnapshotStarts ==
    /\ mpc' = "discover"
    /\ discovered' = <<>>
    /\ mi' = 1
    /\ info' = NoInfo
    /\ steps' = NoSteps
    /\ row' = NoRow
    /\ rowNames' = <<>>
    /\ warned' = FALSE
    /\ tableShown' = FALSE
    /\ mErr' = "pending"
    /\ snapshots' = snapshots + 1
    /\ lateSnapshot' = (lateSnapshot \/ cancelled)

\* DisplayNetworkInfo in continuous mode: NewTicker and the first call of
\* displayOneShotInfo, up to the call of docker ps
ContinuousEntry ==
    /\ cpc = "idle"
    /\ mpc = "idle"
    /\ snapshots = 0
    /\ IsContinuous(updateInterval)
    /\ cpc' = "first"
    /\ SnapshotStarts
    /\ UNCHANGED <<updateInterval, cancelled, tickPending, ticksFired,
                   ticksTaken,
                   cRet, reported, isoVars, runtimeVars, launchVars,
                   gatewayVars, failureVars, strangers, poolVars>>

AfterSnapshotAbort(err) == IF err # Nil THEN "returned" ELSE "select"

\* where continuousMonitoring goes on after displayOneShotInfo returned err:
\* the error is reported, nothing is returned
AfterSnapshot(err) == "select"

\* displayOneShotInfo returns to continuousMonitoring, which reports an
\* error and goes (back) to the select
SnapshotReturns ==
    /\ cpc \in {"first", "tick"}
    /\ mpc = "done"
    /\ mpc' = "idle"
    /\ reported' = IF mErr # Nil THEN reported + 1 ELSE reported
    /\ cpc' = AfterSnapshot(mErr)
    /\ cRet' = IF cpc' = "returned" THEN mErr ELSE cRet
    /\ UNCHANGED <<discovered, mi, info, steps, row, rowNames, warned,
                   tableShown,
                   mErr, updateInterval, cancelled, tickPending, ticksFired,
                   ticksTaken, snapshots, lateSnapshot,
                   isoVars, runtimeVars, launchVars, gatewayVars,
                   failureVars, strangers, poolVars>>

\* the ticker fires: ticker.C holds one tick at most, a tick that finds it
\* full is dropped
Tick ==
    /\ cpc \in {"first", "select", "tick"}
    /\ ticksFired < MaxTicks
    /\ ticksFired' = ticksFired + 1
    /\ tickPending' = TRUE
    /\ UNCHANGED <<mpc, discovered, mi, info, steps, row, rowNames, warned,
                   tableShown, mErr, updateInterval, cpc, cancelled, ticksTaken,
                   snapshots, lateSnapshot, cRet, reported,
                   isoVars, runtimeVars, launchVars, gatewayVars,
                   failureVars, strangers, poolVars>>

\* the caller cancels ctx
Cancel ==
    /\ cpc \in {"first", "select", "tick"}
    /\ ~cancelled
    /\ cancelled' = TRUE
    /\ UNCHANGED <<mpc, discovered, mi, info, steps, row, rowNames, warned,
                   tableShown, mErr, updateInterval, cpc, tickPending, ticksFired,
                   ticksTaken, snapshots, lateSnapshot, cRet, reported,
                   isoVars, runtimeVars, launchVars, gatewayVars,
                   failureVars, strangers, poolVars>>

\* select, case <-ticker.C: the next call of displayOneShotInfo, up to the
\* call of docker ps.  A select with several ready cases takes any of them.
SelectTick ==
    /\ cpc = "select"
    /\ tickPending
    /\ tickPending' = FALSE
    /\ ticksTaken' = ticksTaken + 1
    /\ cpc' = "tick"
    /\ SnapshotStarts
    /\ UNCHANGED <<updateInterval, cancelled, ticksFired, cRet, reported,
                   isoVars, runtimeVars, launchVars, gatewayVars,
                   failureVars, strangers, poolVars>>

\* select, case <-ctx.Done(): return ctx.Err()
SelectDone ==
    /\ cpc = "select"
    /\ cancelled
    /\ cpc' = "returned"
    /\ cRet' = CancelCause
    /\ UNCHANGED <<reported, mpc, discovered, mi, info, steps, row, rowNames,
                   warned,
                   tableShown, mErr, updateInterval, cancelled, tickPending,
                   ticksFired, ticksTaken, snapshots, lateSnapshot,
                   isoVars, runtimeVars, launchVars, gatewayVars,
                   failureVars, strangers, poolVars>>

\* DisplayNetworkInfo in one-shot mode, called again by a new process (an
\* empty pool) when the container of one node is no longer up; the runtime
\* and the nodes answer as they did
Rerun ==
    /\ run = 1
    /\ mpc = "done"
    /\ cpc = "idle"
    /\ ~IsContinuous(updateInterval)
    /\ run' = 2
    /\ \E s \in {"restarting", "exited"} :
         containers' = [containers EXCEPT ![down] = s]
    /\ clients' = [e \in NodeURLs |-> 0]
    /\ rpcClients' = [e \in NodeURLs |-> 0]
    /\ transports' = <<>>
    /\ sinceConnect' = [e \in NodeURLs |-> 0]
    /\ SnapshotStarts
    /\ UNCHANGED <<updateInterval, cpc, cancelled, tickPending, ticksFired,
                   ticksTaken, cRet, reported, tape, down, baseline, backend, networks,
                   mutex, tpc, call, poolCalls, launchVars, gatewayVars,
                   failureVars, strangers>>

----------------------------------------------------------------------------
(* The specifications.                                                     *)

PoolIdle ==
    /\ clients = [e \in Endpoints |-> 0]
    /\ rpcClients = [e \in Endpoints |-> 0]
    /\ mutex = Unlocked
    /\ transports = <<>>
    /\ tpc = [t \in Threads |-> "idle"]
    /\ call = [t \in Threads |-> NoCall]
    /\ sinceConnect = [e \in Endpoints |-> 0]
    /\ poolCalls = 0

LaunchIdle ==
    /\ lpc = "idle"
    /\ cur = 1
    /\ phaseA = [n \in Nodes |-> "none"]
    /\ phaseB = [n \in Nodes |-> "none"]
    /\ result = [n \in Nodes |-> "pending"]
    /\ cause = [n \in Nodes |-> "none"]
    /\ successCount = 0
    /\ events = <<>>
    /\ retErr = "pending"
    /\ netErr = "pending"
    /\ preExisting = [n \in Nodes |-> "absent"]

\* no backend is in use: its variables hold nothing
LifecycleIdle ==
    /\ rt = <<>>
    /\ rtNets = <<>>
    /\ lcCall = <<>>
    /\ lcCalls = 0
    /\ lcHist = <<>>

\* no stats are read
CPUIdle ==
    /\ cpuHost = <<>>
    /\ stats = <<>>
    /\ cpuUsage = <<>>

GatewayIdle == gwCalls = <<>> /\ LifecycleIdle /\ CPUIdle

\* nothing is recorded and nothing is read from the tape
IsolationIdle ==
    /\ run = 0
    /\ tape = <<>>
    /\ down = "alice"
    /\ baseline = <<>>

MonitorIdle ==
    /\ IsolationIdle
    /\ mpc = "idle"
    /\ discovered = <<>>
    /\ mi = 1
    /\ info = NoInfo
    /\ steps = NoSteps
    /\ row = NoRow
    /\ rowNames = <<>>
    /\ warned = FALSE
    /\ tableShown = FALSE
    /\ mErr = "pending"

\* no temporary-failure command was given
FailureIdle == tf = <<>>

LoopIdle ==
    /\ cpc = "idle"
    /\ cancelled = FALSE
    /\ tickPending = FALSE
    /\ ticksFired = 0
    /\ ticksTaken = 0
    /\ snapshots = 0
    /\ lateSnapshot = FALSE
    /\ cRet = "pending"
    /\ reported = 0

InitLaunch ==
    /\ backend \in Backends
    /\ networks \in SUBSET NetNames
    /\ containers = [n \in Nodes |-> "absent"]
    /\ LaunchIdle
    /\ GatewayIdle
    /\ PoolIdle
    /\ MonitorIdle
    /\ LoopIdle
    /\ FailureIdle
    /\ strangers = {}
    /\ updateInterval = 0

NextLaunch ==
    \/ LaunchEntry
    \/ LaunchCreateNetwork
    \/ LaunchStartProgress
    \/ \E n \in Nodes : InitGenesisStart(n)
    \/ \E n \in Nodes : InitGenesisExit(n)
    \/ \E n \in Nodes : RunContainerStart(n)
    \/ \E n \in Nodes : RunContainerExit(n)
    \/ \E n \in Nodes : ProgressUpdate(n)
    \/ LaunchFinish
    \/ Cleanup

SpecLaunch == InitLaunch /\ [][NextLaunch]_vars

InitGateway ==
    /\ backend \in Backends
    /\ networks \in SUBSET NetNames
    /\ containers = [n \in Nodes |-> "absent"]
    /\ LaunchIdle
    /\ GatewayIdle
    /\ PoolIdle
    /\ MonitorIdle
    /\ LoopIdle
    /\ FailureIdle
    /\ strangers = {}
    /\ updateInterval = 0

NextGateway == \E name \in NetNames : GwCreateNetwork(name)

SpecGateway == InitGateway /\ [][NextGateway]_vars

\* every backend starts on the same runtime; the map of DockerClientReal is
\* empty after NewDockerClientReal
InitLifecycle ==
    /\ backend = "api"
    /\ networks = {}
    /\ containers = [n \in Nodes |-> "absent"]
    /\ LaunchIdle
    /\ gwCalls = <<>>
    /\ \E cs \in [ContainerIDs -> ContainerStates] :
         rt = [b \in AllBackends |->
                 IF b \in Backends THEN cs ELSE [id \in ContainerIDs |-> "absent"]]
    /\ \E nets \in SUBSET NetNames :
         rtNets = [b \in AllBackends |-> IF b \in Backends THEN nets ELSE {}]
    /\ lcCall = NoLcCall
    /\ lcCalls = 0
    /\ lcHist = [id \in ContainerIDs |-> NoHistory]
    /\ CPUIdle
    /\ PoolIdle
    /\ MonitorIdle
    /\ LoopIdle
    /\ FailureIdle
    /\ strangers = {}
    /\ updateInterval = 0

NextLifecycle ==
    \/ \E op \in ContainerOps, id \in ContainerIDs : LcContainerCall(op, id)
    \/ \E name \in NetNames : LcCreateNetwork(name)
    \/ \E name \in NetNames : LcRemoveNetwork(name)
    \/ \E id \in ContainerIDs, name \in NetNames : LcConnectToNetwork(id, name)

SpecLifecycle == InitLifecycle /\ [][NextLifecycle]_vars

InitStats ==
    /\ backend = "api"
    /\ networks = {}
    /\ containers = [n \in Nodes |-> "absent"]
    /\ LaunchIdle
    /\ gwCalls = <<>>
    /\ LifecycleIdle
    /\ cpuHost \in [online : OnlineCPUs, percpu : BOOLEAN]
    /\ stats = NoStats
    /\ cpuUsage = ZeroPercent
    /\ PoolIdle
    /\ MonitorIdle
    /\ LoopIdle
    /\ FailureIdle
    /\ strangers = {}
    /\ updateInterval = 0

NextStats == GetContainerStats

SpecStats == InitStats /\ [][NextStats]_vars

InitPool ==
    /\ backend = "api"
    /\ networks = {}
    /\ containers = [n \in Nodes |-> "absent"]
    /\ LaunchIdle
    /\ GatewayIdle
    /\ PoolIdle
    /\ MonitorIdle
    /\ LoopIdle
    /\ FailureIdle
    /\ strangers = {}
    /\ updateInterval = 0

NextPool ==
    \/ \E t \in Threads, e \in Endpoints : ConnectToNode_Call(t, e)
    \/ \E t \in Threads : ConnectToNode_Lock(t)
    \/ \E t \in Threads : ConnectToNode_Dial(t)
    \/ \E t \in Threads : ConnectToNode_Probe(t)
    \/ \E t \in Threads, e \in Endpoints : DisconnectFromNode_Call(t, e)
    \/ \E t \in Threads : DisconnectFromNode_Body(t)
    \/ \E t \in Threads, e \in Endpoints, op \in ReadOps : ReadCall(t, e, op)
    \/ \E t \in Threads : GetClient_RLock(t)
    \/ \E t \in Threads : GetClient_Lookup(t)
    \/ \E t \in Threads : ReadRPC(t)
    \/ \E t \in Threads : ReadSecondRPC(t)

SpecPool == InitPool /\ [][NextPool]_vars

\* the containers of the fleet are in any of the states a container can be
\* left in; the pool is the empty one of NewMonitoringService, over the
\* endpoints of the fleet
InitMonitor ==
    /\ backend = "cli"
    /\ networks = {NetworkName}
    /\ containers \in [Nodes -> {"running", "restarting", "exited"}]
    /\ LaunchIdle
    /\ GatewayIdle
    /\ clients = [e \in NodeURLs |-> 0]
    /\ rpcClients = [e \in NodeURLs |-> 0]
    /\ mutex = Unlocked
    /\ transports = <<>>
    /\ tpc = [t \in Threads |-> "idle"]
    /\ call = [t \in Threads |-> NoCall]
    /\ sinceConnect = [e \in NodeURLs |-> 0]
    /\ poolCalls = 0
    /\ MonitorIdle
    /\ LoopIdle
    /\ FailureIdle
    /\ strangers = {}
    /\ updateInterval = 0

NextMonitor ==
    \/ DisplayEntry
    \/ Discover
    \/ NodeStatus
    \/ NodeStats
    \/ NodeConnect
    \/ NodeBlock
    \/ NodePeers
    \/ NodePending
    \/ NextContainer
    \/ DisplayTable

SpecMonitor == InitMonitor /\ [][NextMonitor]_vars

\* two one-shot snapshots: the first with the five containers up, the
\* second with the container of one node not up
InitIsolation ==
    /\ backend = "cli"
    /\ networks = {NetworkName}
    /\ containers = [n \in Nodes |-> "running"]
    /\ LaunchIdle
    /\ GatewayIdle
    /\ clients = [e \in NodeURLs |-> 0]
    /\ rpcClients = [e \in NodeURLs |-> 0]
    /\ mutex = Unlocked
    /\ transports = <<>>
    /\ tpc = [t \in Threads |-> "idle"]
    /\ call = [t \in Threads |-> NoCall]
    /\ sinceConnect = [e \in NodeURLs |-> 0]
    /\ poolCalls = 0
    /\ mpc = "idle"
    /\ discovered = <<>>
    /\ mi = 1
    /\ info = NoInfo
    /\ steps = NoSteps
    /\ row = NoRow
    /\ rowNames = <<>>
    /\ warned = FALSE
    /\ tableShown = FALSE
    /\ mErr = "pending"
    /\ LoopIdle
    /\ FailureIdle
    /\ strangers = {}
    /\ updateInterval = 0
    /\ run = 1
    /\ tape \in [Nodes -> Profiles]
    /\ down \in Nodes
    /\ baseline = [n \in Nodes |-> NoRow]

NextIsolation ==
    \/ DisplayEntry
    \/ Discover
    \/ NodeStatus
    \/ NodeStats
    \/ NodeConnect
    \/ NodeBlock
    \/ NodePeers
    \/ NodePending
    \/ NextContainer
    \/ DisplayTable
    \/ Rerun

SpecIsolation == InitIsolation /\ [][NextIsolation]_vars

\* DisplayNetworkInfo in either mode, over a runtime in which alice is the
\* one container of the fleet that may be listed
InitDisplay ==
    /\ backend = "cli"
    /\ networks = {NetworkName}
    /\ \E s \in {"running", "restarting", "exited"} :
         containers = [n \in Nodes |-> IF n = "alice" THEN s ELSE "exited"]
    /\ LaunchIdle
    /\ GatewayIdle
    /\ clients = [e \in NodeURLs |-> 0]
    /\ rpcClients = [e \in NodeURLs |-> 0]
    /\ mutex = Unlocked
    /\ transports = <<>>
    /\ tpc = [t \in Threads |-> "idle"]
    /\ call = [t \in Threads |-> NoCall]
    /\ sinceConnect = [e \in NodeURLs |-> 0]
    /\ poolCalls = 0
    /\ MonitorIdle
    /\ LoopIdle
    /\ FailureIdle
    /\ strangers = {}
    /\ updateInterval \in Intervals

SnapshotStep ==
    \/ Discover
    \/ NodeStatus
    \/ NodeStats
    \/ NodeConnect
    \/ NodeBlock
    \/ NodePeers
    \/ NodePending
    \/ NextContainer
    \/ DisplayTable

NextDisplay ==
    \/ DisplayEntry
    \/ ContinuousEntry
    \/ SnapshotStep
    \/ SnapshotReturns
    \/ Tick
    \/ Cancel
    \/ SelectTick
    \/ SelectDone

\* every started step of a snapshot ends (the commands and RPC calls run
\* under ctx), and a select whose ctx.Done() case is ready again and again
\* takes it in the end (a select chooses among its ready cases at random)
SpecDisplay ==
    /\ InitDisplay
    /\ [][NextDisplay]_vars
    /\ WF_vars(SnapshotStep)
    /\ WF_vars(SnapshotReturns)
    /\ SF_vars(SelectDone)

\* a one-shot snapshot of a runtime where containers outside the fleet carry
\* the fleet's name prefix
InitStrangers ==
    /\ backend = "cli"
    /\ networks = {NetworkName}
    /\ containers \in [Nodes -> {"running", "exited"}]
    /\ strangers \in SUBSET StrangerNames
    /\ LaunchIdle
    /\ GatewayIdle
    /\ clients = [e \in NodeURLs |-> 0]
    /\ rpcClients = [e \in NodeURLs |-> 0]
    /\ mutex = Unlocked
    /\ transports = <<>>
    /\ tpc = [t \in Threads |-> "idle"]
    /\ call = [t \in Threads |-> NoCall]
    /\ sinceConnect = [e \in NodeURLs |-> 0]
    /\ poolCalls = 0
    /\ MonitorIdle
    /\ LoopIdle
    /\ FailureIdle
    /\ updateInterval = 0

SpecStrangers == InitStrangers /\ [][NextMonitor]_vars

\* the temporary-failure command given once, on a network whose containers
\* run, restart or have exited
InitFailure ==
    /\ backend = "cli"
    /\ networks = {NetworkName}
    /\ containers \in [Nodes -> {"running", "restarting", "exited"}]
    /\ LaunchIdle
    /\ GatewayIdle
    /\ PoolIdle
    /\ MonitorIdle
    /\ LoopIdle
    /\ updateInterval = 0
    /\ strangers = {}
    /\ tf = [pc |-> "idle", node |-> "none", infos |-> <<>>, warnings |-> <<>>,
             ret |-> "pending", wasUp |-> FALSE, wentDown |-> FALSE]

NextFailure == \E n \in Nodes : HandleTemporaryFailure(n)

SpecFailure == InitFailure /\ [][NextFailure]_vars

----------------------------------------------------------------------------
(* Properties of LaunchNetwork (SpecLaunch).                               *)

Attempted(n) == phaseA[n] # "none" \/ phaseB[n] # "none"

Finished(n) == result[n] # "pending"

InFlight(n) == Attempted(n) /\ ~Finished(n)

FailedNodes == { n \in Nodes : result[n] = "failed" }

LaunchedNodes == { n \in Nodes : result[n] = "ok" }

ErrNoNodes == "failed to launch any nodes"

\* C1: whatever the pattern of per-node failures, the sequencer moves from
\* each node to the next one, and when LaunchNetwork has returned all 5
\* nodes were attempted and successCount = 5 - (number of failed nodes).
C1_AllNodesAttempted ==
    /\ lpc = "nodes" => cur = Len(events) + 1
    /\ lpc = "done" =>
         /\ \A n \in Nodes : Attempted(n) /\ Finished(n)
         /\ successCount = NumNodes - Cardinality(FailedNodes)

C1_Witness ==
    /\ lpc = "done"
    /\ result = [n \in Nodes |->
                   IF n \in {"alice", "cassandra"} THEN "failed" ELSE "ok"]
    /\ successCount = 3

\* C2: LaunchNetwork returns an error exactly when no node was launched;
\* with at least one node launched it returns nil.
C2_ErrorIffNoneLaunched ==
    lpc = "done" => ((retErr # Nil) <=> (LaunchedNodes = {}))

C2_Witness ==
    /\ lpc = "done"
    /\ retErr = Nil
    /\ Cardinality(LaunchedNodes) = 1

\* C3: for alice, bob and driss the container (phase b) is started only
\* when the init command (phase a) has exited with success; while phase a
\* runs or after it failed phase b is not started, and a node whose phase a
\* failed is a failed node.
C3_InitBeforeRun ==
    \A n \in Nodes : NeedsGenesis(n) =>
        /\ phaseB[n] # "none" => phaseA[n] = "ok"
        /\ phaseA[n] = "failed" => result[n] = "failed" /\ cause[n] = "init"
        /\ \A k \in 1..Len(events) :
             (Order[k] = n /\ phaseA[n] = "failed") => ~events[k].ok

C3_Witness ==
    /\ phaseA["alice"] = "failed"
    /\ phaseA["bob"] = "ok"
    /\ phaseB["bob"] = "running"

\* C4: at most one node's bring-up is in flight, and node i+1 is not begun
\* before node i has finished (with success or failure).
C4_OneAtATime ==
    /\ Cardinality({ n \in Nodes : InFlight(n) }) <= 1
    /\ \A i \in 1..(NumNodes - 1) : Attempted(Order[i + 1]) => Finished(Order[i])

C4_Witness ==
    /\ InFlight("driss")
    /\ phaseB["driss"] = "running"
    /\ result["cassandra"] = "failed"

\* C5: the k-th progress event carries index k, is emitted once node k has
\* finished and before node k+1 is begun, reports success exactly when node
\* k succeeded and otherwise carries node k's failure; a finished launch has
\* emitted exactly one event per node.
C5_OneEventPerNode ==
    /\ Len(events) <= NumNodes
    /\ \A k \in 1..Len(events) :
         /\ events[k].index = k
         /\ Finished(Order[k])
         /\ events[k].ok <=> (result[Order[k]] = "ok")
         /\ ~events[k].ok => (events[k].cause = cause[Order[k]] /\ events[k].cause # "none")
    /\ \A i \in 1..(NumNodes - 1) : Attempted(Order[i + 1]) => Len(events) >= i
    /\ lpc \in {"finish", "done"} => Len(events) = NumNodes

C5_Witness ==
    /\ lpc = "done"
    /\ Len(events) = NumNodes
    /\ events[1].ok
    /\ ~events[2].ok /\ events[2].cause = "init"
    /\ ~events[3].ok /\ events[3].cause = "create"

\* C6: whatever CreateNetwork returned (nil for a created or an existing
\* network, or an error), LaunchNetwork does not return at that step and
\* all 5 nodes are attempted afterwards.
C6_NetworkOutcomeNeverAborts ==
    /\ (netErr # "pending" /\ lpc \notin {"done", "idle"}) =>
          (retErr = "pending" /\ lpc \in {"progress", "nodes", "finish"})
    /\ lpc = "done" => (netErr # "pending" /\ \A n \in Nodes : Attempted(n))

\* the network existed (LaunchNetwork creates it only with a nil result),
\* CreateNetwork returned an error, and the launch went through
C6_Witness ==
    /\ lpc = "done"
    /\ netErr \notin {"pending", Nil}
    /\ NetworkName \in networks
    /\ \A n \in Nodes : Attempted(n)

\* C7: a launch leaves every container that existed when it was entered as
\* it was, every node whose container name existed ends failed, and when
\* all five existed the launch ends with successCount = 0 and the
\* total-failure error.
C7_ExistingContainersNotHandled ==
    lpc # "idle" =>
        /\ \A n \in Nodes : preExisting[n] # "absent" => containers[n] = preExisting[n]
        /\ lpc = "done" =>
             /\ \A n \in Nodes : preExisting[n] # "absent" => result[n] = "failed"
             /\ (\A n \in Nodes : preExisting[n] # "absent") =>
                    (successCount = 0 /\ retErr = ErrNoNodes)

C7_Witness ==
    /\ lpc = "done"
    /\ \A n \in Nodes : preExisting[n] = "running"
    /\ successCount = 0
    /\ retErr = ErrNoNodes

----------------------------------------------------------------------------
(* Properties of CreateNetwork (SpecGateway).                              *)

----------------------------------------------------------------------------
(* Properties of the RPC client pool (SpecPool).                           *)

ReturnedConnect(t) == tpc[t] = "idle" /\ call[t].op = "connect"

\* C9: a ConnectToNode call that finds the endpoint in the pool returns nil
\* without dialing and without probing, so that from the probe of the
\* connect that stored an entry until that entry is removed by
\* DisconnectFromNode, ConnectToNode probes the endpoint at most once.
C9_ConnectIdempotent ==
    /\ \A t \in Threads :
         (call[t].op = "connect" /\ call[t].found) =>
            (tpc[t] = "idle" /\ call[t].err = Nil /\ call[t].opened = 0
             /\ ~call[t].probed /\ call[t].intact)
    /\ \A e \in Endpoints : sinceConnect[e] <= 1
    /\ \A e \in Endpoints : clients[e] # 0 => sinceConnect[e] = 1

C9_Witness ==
    \E t \in Threads :
        /\ ReturnedConnect(t)
        /\ call[t].found
        /\ call[t].err = Nil
        /\ sinceConnect[call[t].ep] = 1
        /\ Len(transports) = 1

\* C10: a ConnectToNode call whose dial or probe failed has returned an
\* error, the transport it opened (if any) is closed, and the pool (both
\* maps) was left as it was found, with no entry for the endpoint; a call
\* that returned nil without finding an entry dialed and probed.
C10_ConnectAllOrNothing ==
    \A t \in Threads : ReturnedConnect(t) =>
        /\ call[t].err # Nil =>
             /\ call[t].intact
             /\ call[t].absent
             /\ ~call[t].found
             /\ call[t].opened # 0 => ~transports[call[t].opened].open
             /\ call[t].probed <=> call[t].opened # 0
        /\ (call[t].err = Nil /\ ~call[t].found) =>
             (call[t].opened # 0 /\ call[t].probed /\ ~call[t].absent)

C10_Witness ==
    \E t \in Threads :
        /\ ReturnedConnect(t)
        /\ call[t].err = "failed to get network ID"
        /\ call[t].opened # 0
        /\ ~transports[call[t].opened].open
        /\ clients[call[t].ep] = 0

ReturnedDisconnect(t) == tpc[t] = "idle" /\ call[t].op = "disconnect"

\* C11: a returned DisconnectFromNode has returned nil; when it found the
\* endpoint in the pool, the transport of that entry is closed and the call
\* left no entry for the endpoint in either map; when it did not, it left
\* the whole pool as it found it; in both cases the entries and transports
\* of the other endpoints are as the call found them.
C11_DisconnectRemovesOnlyItsEndpoint ==
    \A t \in Threads : ReturnedDisconnect(t) =>
        /\ call[t].err = Nil
        /\ call[t].others
        /\ call[t].found =>
             /\ call[t].closed # 0
             /\ transports[call[t].closed].ep = call[t].ep
             /\ ~transports[call[t].closed].open
             /\ call[t].absent
        /\ ~call[t].found => (call[t].intact /\ call[t].closed = 0)

C11_Witness ==
    \E t \in Threads :
        /\ ReturnedDisconnect(t)
        /\ call[t].found
        /\ ~transports[call[t].closed].open
        /\ clients[call[t].ep] = 0
        /\ \E o \in Endpoints \ {call[t].ep} : clients[o] # 0

ReturnedRead(t) == tpc[t] = "idle" /\ call[t].op \in Lookups

\* C12: every read operation looks its endpoint up first, and a read whose
\* endpoint had no entry in the pool at the lookup has returned the
\* not-connected error without issuing an RPC call; an RPC call is issued
\* only on a client that the lookup found.
C12_ReadNotConnected ==
    /\ \A op \in ReadOps : LookupOf(op) \in {"getClient", "getRPCClient"}
    /\ \A t \in Threads :
         /\ (ReturnedRead(t) /\ call[t].absent) =>
               (call[t].err = ErrNotConnected /\ call[t].rpcs = 0 /\ ~call[t].found)
         /\ (call[t].op \in Lookups /\ call[t].rpcs > 0) => call[t].found
         /\ (call[t].op \in Lookups /\ tpc[t] \in {"r_rpc", "r_rpc2"}) =>
               (call[t].found /\ ~call[t].absent /\ call[t].handle # 0)

C12_Witness ==
    \E t \in Threads :
        /\ ReturnedRead(t)
        /\ call[t].absent
        /\ call[t].err = ErrNotConnected
        /\ call[t].rpcs = 0
        /\ \E o \in Endpoints \ {call[t].ep} : clients[o] # 0

LiveTransports(e) ==
    {id \in 1..Len(transports) : transports[id].ep = e /\ transports[id].open}

\* the transport a ConnectToNode call has dialed and is probing, under the
\* write lock, before it stores or closes it
InSetup(id) ==
    \E t \in Threads :
        tpc[t] = "c_probe" /\ mutex.writer = t /\ call[t].opened = id

\* C13: in every state at most one transport per endpoint is open; the two
\* maps agree, and an entry holds an open transport of its endpoint; every
\* transport ever dialed is the pool entry of its endpoint or is closed,
\* the one exception being the transport that the ConnectToNode call
\* holding the write lock has dialed and not yet stored or closed; and at
\* most one ConnectToNode call is past the lock at a time.
C13_OneLiveTransportPerEndpoint ==
    /\ \A e \in Endpoints : Cardinality(LiveTransports(e)) <= 1
    /\ \A e \in Endpoints :
         /\ clients[e] = rpcClients[e]
         /\ clients[e] # 0 =>
               (transports[clients[e]].open /\ transports[clients[e]].ep = e)
    /\ \A id \in 1..Len(transports) :
         transports[id].open =>
            \/ clients[transports[id].ep] = id /\ rpcClients[transports[id].ep] = id
            \/ InSetup(id) /\ clients[transports[id].ep] = 0
    /\ \A t1, t2 \in Threads :
         (tpc[t1] \in {"c_dial", "c_probe"} /\ tpc[t2] \in {"c_dial", "c_probe"})
            => t1 = t2

C13_Witness ==
    \E t1, t2 \in Threads :
        /\ t1 # t2
        /\ tpc[t1] = "c_probe"
        /\ tpc[t2] = "c_lock"
        /\ call[t1].ep = call[t2].ep
        /\ Len(transports) > 1

\* C14: the read lock is held by a read only between the RLock and the
\* return of its lookup; a read whose RPC call is in flight holds neither
\* the read lock nor the write lock; no read ever holds the write lock, so
\* that a read waits for the pool lock only while a ConnectToNode or
\* DisconnectFromNode call holds it, never because of another read.
C14_ReadsHoldNoLockDuringRPC ==
    /\ \A t \in Threads :
         /\ t \in mutex.readers <=> tpc[t] = "r_lookup"
         /\ tpc[t] \in {"r_rpc", "r_rpc2"} =>
               (t \notin mutex.readers /\ mutex.writer # t)
         /\ tpc[t] \in {"r_rlock", "r_lookup", "r_rpc", "r_rpc2"} => mutex.writer # t
    /\ mutex.writer # 0 => tpc[mutex.writer] \in {"c_dial", "c_probe"}
    /\ (\A t \in Threads : tpc[t] \notin {"c_dial", "c_probe"}) => CanRLock

C14_Witness ==
    \E t1, t2 \in Threads :
        /\ tpc[t1] = "r_rpc"
        /\ tpc[t2] = "r_rpc"
        /\ call[t1].ep # call[t2].ep
        /\ mutex = Unlocked

----------------------------------------------------------------------------
(* Properties of the monitoring snapshot (SpecMonitor).                    *)

\* the container whose row was appended last, while the loop is at it
RowAppended == mpc = "row"

Current == discovered[mi]

\* C15: a snapshot that discovered no container has rendered no table and
\* appended no row, and the value it returned differs from the value a
\* successful snapshot returns.
C15_NoContainersResultIsDistinct ==
    (mpc = "done" /\ warned) =>
        /\ ~tableShown
        /\ rowNames = <<>>
        /\ mErr # SnapshotDone

\* C16: a snapshot over a runtime that lists no fleet container returns an
\* error to the caller of DisplayNetworkInfo, and a snapshot that discovered
\* at least one container returns nil whatever failed for its nodes and
\* their fields.
C16_OnlyZeroContainersIsAnError ==
    mpc = "done" =>
        /\ (\A n \in Nodes : ~PsLists(containers[n])) => mErr # Nil
        /\ Len(discovered) > 0 => mErr = Nil

\* C17: the row of a container that is not up is the Offline row, and for it
\* no stats were fetched, no ConnectToNode was made (the pool holds no entry
\* and no transport for its endpoint) and no chain query was issued.
C17_NotUpIsOfflineWithoutCalls ==
    (RowAppended /\ containers[Current.id] # "running") =>
        /\ info.status = Offline
        /\ row.status = Offline
        /\ steps = NoSteps
        /\ row = OfflineRow(Current)
        /\ clients[NodeURL(Current.rpcPort)] = 0
        /\ rpcClients[NodeURL(Current.rpcPort)] = 0
        /\ \A id \in 1..Len(transports) :
             transports[id].ep # NodeURL(Current.rpcPort)
        /\ rowNames[Len(rowNames)] = Current.nodeName

C17_Witness ==
    /\ RowAppended
    /\ containers[Current.id] = "restarting"
    /\ row.status = Offline
    /\ steps.stats = "none"
    /\ \E e \in NodeURLs : clients[e] # 0

\* C18: once the stats fetch of an up node has failed, its CPU and memory
\* are the fixed defaults, the connect is still made and, when it succeeds,
\* the three queries too, and the node's row is appended with the defaults
\* in it; every container starts from an empty NodeInfo, the rows appended
\* are those of the containers processed so far, in order, and a snapshot
\* that discovered a container renders the table and returns nil.
C18_StatsFailureFallsBackToDefaults ==
    /\ steps.stats = "failed" =>
         /\ info.cpu = DefaultCPU /\ info.mem = DefaultMemory
         /\ containers[Current.id] = "running"
         /\ RowAppended =>
              /\ steps.connect # "none"
              /\ steps.connect = "ok" =>
                   (steps.block # "none" /\ steps.peers # "none"
                    /\ steps.pending # "none")
              /\ row = RowOf(Current, info)
              /\ row.cpu = FormatCPU(DefaultCPU) /\ row.mem = FormatMemory(DefaultMemory)
              /\ rowNames[Len(rowNames)] = Current.nodeName
    /\ mpc = "status" => (info = NoInfo /\ steps = NoSteps /\ row = NoRow)
    /\ Len(rowNames) <= Len(discovered)
    /\ \A j \in 1..Len(rowNames) : rowNames[j] = discovered[j].nodeName
    /\ (mpc = "done" /\ Len(discovered) > 0) =>
         (tableShown /\ mErr = SnapshotDone /\ Len(rowNames) = Len(discovered))

C18_Witness ==
    /\ RowAppended
    /\ mi > 1
    /\ mi < Len(discovered)
    /\ steps.stats = "failed"
    /\ steps.connect = "ok"
    /\ steps.pending = "ok"
    /\ row.status = Online
    /\ row.cpu = FormatCPU(DefaultCPU)

\* C19: the row of an up node whose connect failed has the status Starting,
\* not Offline, the default peer count, and a block height that is the same
\* whatever the time at which the snapshot is taken.
C19_ConnectFailureShowsFixedDefaults ==
    (RowAppended /\ steps.connect = "failed") =>
        /\ row.status # Offline
        /\ row.status[2] = "Starting"
        /\ row.peers = DefaultPeerCount
        /\ \A now \in TimeValues : row.block = BlockOnFailure(now)

\* C20: for the row of a node whose connect succeeded, the three queries
\* were all issued, each field whose query succeeded holds the queried
\* value, each field whose query failed holds a default that does not depend
\* on the time, and the row is appended.
C20_QueriesDegradeFieldByField ==
    (RowAppended /\ steps.connect = "ok") =>
        /\ steps.block # "none" /\ steps.peers # "none" /\ steps.pending # "none"
        /\ steps.block = "ok" => row.block = steps.blockValue
        /\ steps.block = "failed" =>
             \A now \in TimeValues : row.block = BlockOnFailure(now)
        /\ steps.peers = "ok" => row.peers = steps.peersValue
        /\ steps.peers = "failed" => row.peers = DefaultPeerCount
        /\ steps.pending = "ok" => info.pending = steps.pendingValue
        /\ steps.pending = "failed" => info.pending = DefaultPendingTxs
        /\ rowNames[Len(rowNames)] = Current.nodeName

\* C21: for a node whose connect succeeded the final status is Online when
\* the peer count is positive, Syncing when it is 0 and the block-number
\* query succeeded, and Starting when it is 0 and the block-number query
\* failed.
C21_StatusDerivation ==
    (RowAppended /\ steps.connect = "ok") =>
        /\ info.peers > 0 => row.status = Online
        /\ (info.peers = 0 /\ steps.block = "ok") => row.status = Syncing
        /\ (info.peers = 0 /\ steps.block = "failed") => row.status = Starting

\* C23: the rows appended are those of the discovered containers, one each,
\* in discovery order; the discovered containers are exactly the containers
\* docker ps lists, each once; and when the loop has ended there is a row
\* for every discovered container.
C23_OneRowPerContainer ==
    /\ Len(rowNames) <= Len(discovered)
    /\ \A j \in 1..Len(rowNames) : rowNames[j] = discovered[j].nodeName
    /\ \A j, k \in 1..Len(discovered) :
         discovered[j].nodeName = discovered[k].nodeName => j = k
    /\ mpc \notin {"idle", "discover"} /\ mErr # "failed to get containers" =>
         {discovered[j].id : j \in 1..Len(discovered)}
            = {n \in Nodes : PsLists(containers[n])}
    /\ mpc \in {"status", "stats", "connect", "block", "peers", "pending"} =>
         Len(rowNames) = mi - 1
    /\ mpc = "row" => Len(rowNames) = mi
    /\ mpc \in {"display", "done"} /\ Len(discovered) > 0 =>
         Len(rowNames) = Len(discovered)

C23_Witness ==
    /\ mpc = "done"
    /\ Len(rowNames) = NumNodes
    /\ tableShown
    /\ \E n \in Nodes : containers[n] = "restarting"
    /\ \E e \in NodeURLs : clients[e] = 0
    /\ \E e \in NodeURLs : clients[e] # 0

----------------------------------------------------------------------------
(* Properties of DisplayNetworkInfo and continuousMonitoring (SpecDisplay). *)

\* C24: continuousMonitoring has returned only when ctx is done, and what it
\* returned is ctx.Err(); and once ctx is done while it runs, it returns in
\* the end.
C24_CancellationEndsMonitoring ==
    /\ [](cpc = "returned" => (cancelled /\ cRet = "context canceled"))
    /\ [](cRet # "pending" => cpc = "returned")
    /\ ((cancelled /\ cpc # "idle") ~> (cpc = "returned"))

C24_Witness ==
    /\ cpc = "returned"
    /\ cRet = CancelCause
    /\ tickPending
    /\ snapshots > 1

\* C25: no call of displayOneShotInfo is made once ctx is done.
C25_NoSnapshotAfterCancellation == ~lateSnapshot

\* C26: with updateInterval <= 0 continuousMonitoring is not entered and one
\* call of displayOneShotInfo is made, whose return ends DisplayNetworkInfo;
\* with updateInterval > 0 the first call of displayOneShotInfo is made at
\* entry, before any tick is received, then one call for every tick
\* received from ticker.C, and the loop is left only when ctx is done.
C26_OneShotAndContinuous ==
    /\ updateInterval <= 0 =>
         /\ cpc = "idle" /\ cRet = "pending" /\ ticksTaken = 0
         /\ snapshots <= 1
         /\ mpc # "idle" => snapshots = 1
         /\ mErr # "pending" <=> mpc = "done"
    /\ updateInterval > 0 =>
         /\ cpc = "idle" => (snapshots = 0 /\ mpc = "idle")
         /\ cpc # "idle" => snapshots = 1 + ticksTaken
         /\ cpc = "first" => ticksTaken = 0
         /\ ticksTaken <= ticksFired
         /\ mpc # "idle" <=> cpc \in {"first", "tick"}
         /\ cpc = "returned" => cancelled

C26_Witness ==
    /\ updateInterval > 0
    /\ cpc = "returned"
    /\ ticksFired = MaxTicks
    /\ snapshots = 1 + MaxTicks

----------------------------------------------------------------------------
(* Properties of the gateway's lifecycle operations (SpecLifecycle).       *)

\* C27: in every backend, IsContainerRunning(id) for an id the runtime does
\* not know, or whose inspect fails, returns false and no error.
C27_IsRunningFalseNoError ==
    lcCall.op = "IsContainerRunning" =>
        \A b \in AllBackends :
            (~lcCall.known[b] \/ lcCall.failed[b]) =>
                (lcCall.val[b] = FALSE /\ lcCall.err[b] = NoErr)

Existing(cs) == { id \in ContainerIDs : cs[id] # "absent" }

Running(cs) == { id \in ContainerIDs : cs[id] = "running" }

LifecycleOps == ContainerOps \cup {"CreateNetwork"}

\* C28: the API backend and the CLI backend, given the same lifecycle calls
\* on the same runtime state, return the same success or failure and the
\* same answer for each call and leave the same containers existing and
\* running and the same networks; a container is not running after a
\* successful CreateContainer.
C28_BackendsEquivalent ==
    /\ lcCall.op \in LifecycleOps =>
         /\ (lcCall.err["api"] = NoErr) <=> (lcCall.err["cli"] = NoErr)
         /\ lcCall.val["api"] = lcCall.val["cli"]
    /\ Existing(rt["api"]) = Existing(rt["cli"])
    /\ Running(rt["api"]) = Running(rt["cli"])
    /\ rtNets["api"] = rtNets["cli"]
    /\ \A b \in Backends :
         (lcCall.op = "CreateContainer" /\ lcCall.err[b] = NoErr) =>
            rt[b][lcCall.id] # "running"

\* the messages that name an operation
OpMessages(op) ==
    CASE op = "CreateContainer" -> {"failed to create container"}
      [] op = "StartContainer" -> {"failed to start container"}
      [] op = "StopContainer" -> {"failed to stop container"}
      [] op = "RestartContainer" -> {"failed to restart container"}
      [] op = "RemoveContainer" -> {"failed to remove container"}
      [] op = "IsContainerRunning" -> {"failed to inspect container"}
      [] op = "CreateNetwork" -> {"failed to list networks", "failed to create network"}
      [] op = "RemoveNetwork" -> {"failed to remove network"}
      [] op = "ConnectToNetwork" -> {"failed to connect container to network"}
      [] OTHER -> {}

\* C29: in the API and the CLI backend, an operation whose runtime request
\* failed returns an error that names the operation and wraps the cause:
\* never nil, never the cause as it is.
C29_ErrorsWrapCause ==
    \A b \in Backends :
        lcCall.failed[b] =>
            /\ Len(lcCall.err[b]) = 2
            /\ lcCall.err[b][1] \in OpMessages(lcCall.op)
            /\ lcCall.err[b][2] = Cause(b)

----------------------------------------------------------------------------
(* Properties of the CPU percentage (SpecStats).                           *)

StatsReturned == stats.err = Nil

\* C30: the CPU percentage of a sample is (current total usage - prior
\* total usage) / (current system usage - prior system usage) x number of
\* CPUs x 100 when the sample has a prior sample (and the system usage
\* differs, so that the quotient exists), and 0 when it has none.
C30_CPUPercentage ==
    StatsReturned =>
        IF stats.prior
        THEN SubExact(stats.cur.system, stats.pre.system) # 0 =>
                cpuUsage.num * SubExact(stats.cur.system, stats.pre.system)
                  = SubExact(stats.cur.total, stats.pre.total) * cpuHost.online * 100
                      * cpuUsage.den
        ELSE cpuUsage.num = 0

----------------------------------------------------------------------------
(* Isolation of the rows of a snapshot (SpecIsolation).                    *)

\* the second snapshot found the five containers, one of them not up
FiveCandidates == run = 2 /\ Len(discovered) = NumNodes

\* C22: when a snapshot finds five containers of which exactly one is not
\* up, and everything else answers as in a snapshot taken with the five
\* up, the row of the node that is not up has the status Offline, every
\* other node gets a row equal in every field to its row of the other
\* snapshot, and the five rows are all there.
C22_PerNodeIsolation ==
    FiveCandidates =>
        /\ mpc = "row" =>
             IF Current.id = down
             THEN row.status = Offline
             ELSE /\ row.status = baseline[Current.id].status
                  /\ row = baseline[Current.id]
        /\ mpc \in {"display", "done"} =>
             /\ Len(rowNames) = NumNodes
             /\ \A n \in Nodes : \E i \in 1..NumNodes : rowNames[i] = <<n>>

C22_Witness ==
    /\ FiveCandidates
    /\ mpc = "done"
    /\ tableShown
    /\ containers[down] = "restarting"
    /\ \A n \in Nodes \ {down} : containers[n] = "running"
    /\ \E n \in Nodes \ {down} : baseline[n].status = ConnectFailedStatus
    /\ \E n \in Nodes \ {down} : baseline[n].status = Online
    /\ baseline[down].status = Online

----------------------------------------------------------------------------
(* Further properties of the snapshot (SpecMonitor).                       *)

\* the snapshot has listed the containers and built its rows
SnapshotBuilt == mpc = "done" /\ mErr = Nil

\* C31: a node whose container exists but has been stopped has a row in the
\* next snapshot (a row with the status Offline): it is not left out.
C31_StoppedNodeHasRow ==
    SnapshotBuilt =>
        \A n \in Nodes :
            containers[n] = "exited" =>
                \E i \in 1..Len(rowNames) : rowNames[i] = <<n>>

\* C33: when the block number query of a connected node succeeds, the block
\* height of the node's row is the value the node returned.
C33_BlockHeightIsQueried ==
    (RowAppended /\ steps.connect = "ok" /\ steps.block = "ok") =>
        row.block = steps.blockValue

----------------------------------------------------------------------------
(* Further properties of continuous monitoring (SpecDisplay).              *)

\* C34: in every snapshot of continuous monitoring, a node whose container
\* is up and whose RPC endpoint does not answer while the snapshot is taken
\* gets the status Starting, also when the pool holds a connection to the
\* endpoint from an earlier snapshot.
C34_UnreachableIsStarting ==
    (cpc \in {"first", "tick"} /\ RowAppended /\ IsUp(Current.status)
       /\ ~steps.reachable) =>
        row.status \in {ConnectFailedStatus, Starting}

\* the last call of displayOneShotInfo returned an error
SnapshotFailed == mErr # Nil /\ mErr # "pending"

\* C35: in continuous monitoring a snapshot that returns an error does not
\* end the loop: the error is reported, nothing is returned, a pending tick
\* can still be taken and every tick taken has started a snapshot; the loop
\* has returned only when ctx was cancelled.
C35_ErrorsDoNotEndLoop ==
    /\ cpc = "returned" => cancelled
    /\ (cpc = "select" /\ SnapshotFailed) => (cRet = "pending" /\ reported >= 1)
    /\ (cpc = "select" /\ tickPending) => ENABLED SelectTick
    /\ cpc # "idle" => snapshots = 1 + ticksTaken

C35_Witness ==
    /\ reported >= 1
    /\ cpc = "tick"
    /\ mpc = "discover"
    /\ snapshots >= 2
    /\ ~cancelled

----------------------------------------------------------------------------
(* A further property of the RPC client pool (SpecPool).                   *)

\* C36: whatever the interleaving of reads and DisconnectFromNode, the
\* transport a lookup handed to a reader is open for as long as the reader
\* has an RPC call to issue on it.
C36_HandedTransportStaysOpen ==
    \A t \in Threads :
        tpc[t] \in {"r_rpc", "r_rpc2"} =>
            /\ call[t].handle # 0
            /\ transports[call[t].handle].open

----------------------------------------------------------------------------
(* A further property of the CPU percentage (SpecStats).                   *)

\* C38: the CPU percentage is 0 whenever the current total-usage counter is
\* not above the prior one or the current system-usage counter is not above
\* the prior one; a wrapped unsigned difference never produces a percentage.
C38_NoPercentageFromWrappedDelta ==
    (StatsReturned /\ stats.prior
       /\ (\/ stats.cur.total <= stats.pre.total
           \/ stats.cur.system <= stats.pre.system)) =>
        cpuUsage.num = 0

----------------------------------------------------------------------------
(* A further property of the container lifecycle (SpecLifecycle).          *)

\* what DockerClientReal.IsContainerRunning answers for the id now
ReportedRunning(id) == IsContainerRunningReal(rt["memory"], id, FALSE).val

\* C39: in DockerClientReal, IsContainerRunning(id) is true exactly when the
\* id was created, was not removed since, and the most recent of
\* StartContainer/StopContainer/RestartContainer on it was StartContainer or
\* RestartContainer: a stop followed by a restart leaves the container
\* running, and an id that was removed or never created is never reported
\* running.
C39_RunningIffStartedOrRestarted ==
    \A id \in ContainerIDs :
        ReportedRunning(id) <=>
            /\ lcHist[id].created
            /\ lcHist[id].last \in {"StartContainer", "RestartContainer"}

----------------------------------------------------------------------------
(* The temporary-failure command (SpecFailure).                            *)

\* the command was given for a node whose container ran, and has returned
FailureSimulated == tf.pc = "returned" /\ tf.wasUp

\* C32: the temporary-failure command stops the container of the node it
\* names (which is then restarted automatically, after 40 seconds): once the
\* command has been carried out on a running node, that node's container
\* has been stopped.
C32_FailureStopsContainer ==
    FailureSimulated => tf.wentDown

----------------------------------------------------------------------------
(* The RPC endpoints of a snapshot (SpecStrangers).                        *)

\* the endpoint getRealNodeInfo queries for the i-th discovered container
QueriedURL(i) == NodeURL(discovered[i].rpcPort)

\* C37: within one snapshot, distinct discovered containers are queried on
\* distinct RPC endpoints, whatever containers carry the benchy- prefix,
\* those named outside the five fleet names included.
C37_DistinctEndpoints ==
    \A i, j \in 1..Len(discovered) :
        (i # j /\ IsUp(discovered[i].status) /\ IsUp(discovered[j].status)) =>
            QueriedURL(i) # QueriedURL(j)

====
